---- MODULE Spec2Model ----
(***************************************************************************)
(* Intelligent Application Manager: the scan / fingerprint / classify /    *)
(* dedupe pipeline and the similarity engine.                              *)
(*                                                                         *)
(* Text (file names, paths, keywords, comparison strings) is a sequence of *)
(* one-character strings, so that substring tests, case folding, extension *)
(* extraction and edit distance are computed as the code computes them.    *)
(***************************************************************************)
EXTENDS Integers, Sequences, FiniteSets, TLC

VARIABLES
  disk,       \* the file system under the scanned tree
  lastScan,   \* data/last-scan.json
  rulesFile,  \* data/rules.json
  statsFile,  \* data/system-stats.json
  logs,       \* data/logs.json
  response,   \* the response of the last request
  catIn,      \* categorizeFiles: the arguments of the call under test
  catOut,     \* categorizeFiles: the value returned
  simIn,      \* calculateSimilarity: the arguments of the call under test
  simOut,     \* calculateSimilarity: the value returned
  dnaIn,      \* detectArchitecture: the argument of the call under test
  dnaOut,     \* detectArchitecture: the value returned
  scanInterval, \* the interval timer of the auto-scan module
  timers,     \* the interval timers the runtime holds
  inflight    \* the requests that have started and not finished

vars == <<disk, lastScan, rulesFile, statsFile, logs, response, catIn, catOut, simIn, simOut, dnaIn, dnaOut, scanInterval, timers, inflight>>

sysVars == <<disk, lastScan, rulesFile, statsFile, logs, response>>

(***************************************************************************)
(* Bounds of the model.                                                    *)
(***************************************************************************)
MaxRequests == 2

MaxSimLen == 3

MaxGroups == 21

\* how many rule lists the operator saves in one behaviour
MaxSaves == 1

(***************************************************************************)
(* Strings.                                                                *)
(***************************************************************************)
Upper == <<"A","B","C","D","E","F","G","H","I","J","K","L","M","N","O","P","Q","R","S","T","U","V","W","X","Y","Z">>

Lower == <<"a","b","c","d","e","f","g","h","i","j","k","l","m","n","o","p","q","r","s","t","u","v","w","x","y","z">>

ToLowerChar(c) ==
  IF \E i \in 1..26 : Upper[i] = c
  THEN Lower[CHOOSE i \in 1..26 : Upper[i] = c]
  ELSE c

toLowerCase(s) == [i \in 1..Len(s) |-> ToLowerChar(s[i])]

\* String.prototype.includes
includes(s, sub) ==
  \E i \in 0..(Len(s) - Len(sub)) : SubSeq(s, i + 1, i + Len(sub)) = sub

endsWith(s, suf) ==
  /\ Len(suf) <= Len(s)
  /\ SubSeq(s, Len(s) - Len(suf) + 1, Len(s)) = suf

LastIndexOf(s, c) ==
  IF \E i \in 1..Len(s) : s[i] = c
  THEN CHOOSE i \in 1..Len(s) : s[i] = c /\ \A j \in (i + 1)..Len(s) : s[j] # c
  ELSE 0

\* path.extname of a name without directory part: from the last dot to the
\* end, empty when there is no dot or the only dot is the first character
extname(name) ==
  LET i == LastIndexOf(name, ".")
  IN IF i <= 1 THEN <<>> ELSE SubSeq(name, i, Len(name))

\* path.basename of a path
basename(p) ==
  LET i == LastIndexOf(p, "/")
  IN SubSeq(p, i + 1, Len(p))

\* path.basename(p, ext): the extension is removed only when the name ends
\* with exactly these characters
basenameExt(p, ext) ==
  LET b == basename(p)
  IN IF Len(ext) > 0 /\ Len(ext) < Len(b) /\ endsWith(b, ext)
     THEN SubSeq(b, 1, Len(b) - Len(ext))
     ELSE b

\* path.join(dir, name)
join(dir, name) == dir \o <<"/">> \o name

IsQuote(c) == c = "\"" \/ c = "'"

IsSpace(c) == c = " "

RECURSIVE trim(_)
trim(s) ==
  IF Len(s) > 0 /\ IsSpace(s[1]) THEN trim(Tail(s))
  ELSE IF Len(s) > 0 /\ IsSpace(s[Len(s)]) THEN trim(SubSeq(s, 1, Len(s) - 1))
  ELSE s

\* dirPath.replace(/^["']|["']$/g, '').trim()
cleanPath(dirPath) ==
  LET a == IF Len(dirPath) > 0 /\ IsQuote(dirPath[1]) THEN Tail(dirPath) ELSE dirPath
      b == IF Len(a) > 0 /\ IsQuote(a[Len(a)]) THEN SubSeq(a, 1, Len(a) - 1) ELSE a
  IN trim(b)

Digit == <<"0","1","2","3","4","5","6","7","8","9">>

\* Number to decimal text, as a template literal prints a non-negative integer
RECURSIVE numberToString(_)
numberToString(n) ==
  IF n < 10 THEN <<Digit[n + 1]>>
  ELSE numberToString(n \div 10) \o <<Digit[(n % 10) + 1]>>

Range(seq) == { seq[i] : i \in 1..Len(seq) }

Min(a, b) == IF a <= b THEN a ELSE b

Max(a, b) == IF a >= b THEN a ELSE b

(***************************************************************************)
(* The file system.  The tree has a fixed shape; what varies is what each  *)
(* file slot holds, whether each directory can be read, and which copies   *)
(* the organizer has made.  The application may run in /r, so that its     *)
(* output tree lies in the scanned tree.                                   *)
(*                                                                         *)
(*   /r                 d/ , slot 1 , e/ (the directory "output")          *)
(*   /r/d               slot 2                                             *)
(*   /r/output          g/ (the directory "Apps")                          *)
(*   /r/output/Apps     slot 3                                             *)
(*   /f                 a regular file outside the tree                    *)
(***************************************************************************)
Dirs == {"r", "d", "e", "g"}

Slots == {1, 2, 3}

DirPath(d) ==
  CASE d = "r" -> <<"/","r">>
    [] d = "d" -> <<"/","r","/","d">>
    [] d = "e" -> <<"/","r","/","o","u","t","p","u","t">>
    [] d = "g" -> <<"/","r","/","o","u","t","p","u","t","/","A","p","p","s">>

\* entry.name of a directory
DirName(d) == basename(DirPath(d))

\* fs.readdir(dir, { withFileTypes: true }), in the order the directory lists
Entries(d) ==
  CASE d = "r" -> << [t |-> "dir", id |-> "d"], [t |-> "slot", id |-> 1], [t |-> "dir", id |-> "e"] >>
    [] d = "d" -> << [t |-> "slot", id |-> 2] >>
    [] d = "e" -> << [t |-> "dir", id |-> "g"] >>
    [] d = "g" -> << [t |-> "slot", id |-> 3] >>

SlotDir(s) == CASE s = 1 -> "r" [] s = 2 -> "d" [] s = 3 -> "g"

PlainFilePath == <<"/","f">>

NoFile == [kind |-> "none", name |-> <<>>, bytes |-> <<>>, mtime |-> <<>>, statOk |-> FALSE, readOk |-> FALSE]

File(name, bytes, mtime) ==
  [kind |-> "file", name |-> name, bytes |-> bytes, mtime |-> mtime, statOk |-> TRUE, readOk |-> TRUE]

\* Date.prototype.toISOString of two modification times
Time1 == <<"2","0","2","4","-","0","1","-","0","1","T","0","0",":","0","0",":","0","0",".","0","0","0","Z">>

Time2 == <<"2","0","2","5","-","1","2","-","3","1","T","2","3",":","5","9",":","5","9",".","9","9","9","Z">>

Bytes1 == <<77, 90, 1>>

Bytes2 == <<77, 90, 2>>

Bytes3 == <<127>>

\* crypto sha256 digest: the same bytes give the same digest, different bytes
\* a different one, and a digest is never the empty string
sha256(bytes) == <<"sha256">> \o bytes

\* stats.size
SizeOf(slot) == Len(slot.bytes)

APP_EXTENSIONS ==
  { <<".","e","x","e">>, <<".","m","s","i">>, <<".","a","p","k">>, <<".","s","h">>, <<".","a","p","p">>, <<".","d","e","b">>, <<".","r","p","m">>, <<".","d","m","g">>, <<".","p","k","g">>, <<".","a","p","p","x">>, <<".","s","n","a","p">> }

\* mutant of isApplication: the extension is compared as written
isApplicationCaseSensitive(name) == extname(name) \in APP_EXTENSIONS

\* APP_EXTENSIONS.includes(path.extname(entry.name).toLowerCase())
isApplication(name) == toLowerCase(extname(name)) \in APP_EXTENSIONS

\* calculateFileHash: the digest, or the empty string when the read fails
calculateFileHash(slot) ==
  IF slot.readOk THEN sha256(slot.bytes) ELSE <<>>

\* what a path given as scan root names
Resolve(p) ==
  IF \E d \in Dirs : DirPath(d) = p
  THEN [t |-> "dir", id |-> CHOOSE d \in Dirs : DirPath(d) = p]
  ELSE IF p = PlainFilePath THEN [t |-> "file", id |-> "f"]
  ELSE [t |-> "missing", id |-> "none"]

\* mutant of Thrown: the error is swallowed and the walk returns no files
ThrownSwallowed(e) == [ok |-> TRUE, files |-> <<>>, error |-> e]

\* throw new Error(...): the walk of this directory fails
Thrown(e) == [ok |-> FALSE, files |-> <<>>, error |-> e]

RECURSIVE scanDirectory(_, _)
RECURSIVE scanEntries(_, _, _, _, _)

\* mutant of scanEntries: a subdirectory that cannot be scanned ends the loop
RECURSIVE scanEntriesAbort(_, _, _, _, _)
scanEntriesAbort(dk, dir, entries, i, files) ==
  IF i > Len(entries) THEN files
  ELSE
    LET entry == entries[i]
    IN IF entry.t = "dir"
       THEN LET sub == scanDirectory(dk, join(dir, DirName(entry.id)))
            IN IF sub.ok THEN scanEntriesAbort(dk, dir, entries, i + 1, files \o sub.files) ELSE files
       ELSE
         LET slot == dk.slot[entry.id]
             hash == calculateFileHash(slot)
             keep == /\ slot.kind = "file"
                     /\ isApplication(slot.name)
                     /\ slot.statOk
                     /\ Len(hash) > 0
             info == [path |-> join(dir, slot.name), name |-> slot.name, size |-> SizeOf(slot), hash |-> hash]
         IN scanEntriesAbort(dk, dir, entries, i + 1, IF keep THEN Append(files, info) ELSE files)

\* the loop over the entries of one directory
scanEntries(dk, dir, entries, i, files) ==
  IF i > Len(entries) THEN files
  ELSE
    LET entry == entries[i]
    IN IF entry.t = "dir"
       THEN LET sub == scanDirectory(dk, join(dir, DirName(entry.id)))
            IN scanEntries(dk, dir, entries, i + 1, IF sub.ok THEN files \o sub.files ELSE files)
       ELSE
         LET slot == dk.slot[entry.id]
             hash == calculateFileHash(slot)
             keep == /\ slot.kind = "file"
                     /\ isApplication(slot.name)
                     /\ slot.statOk
                     /\ Len(hash) > 0
             info == [path |-> join(dir, slot.name), name |-> slot.name, size |-> SizeOf(slot), hash |-> hash]
         IN scanEntries(dk, dir, entries, i + 1, IF keep THEN Append(files, info) ELSE files)

scanDirectory(dk, dirPath) ==
  LET clean == cleanPath(dirPath)
      node  == Resolve(clean)
  IN IF node.t = "missing" THEN Thrown("Directory not found")
     ELSE IF node.t # "dir" THEN Thrown("Path is not a directory")
     ELSE IF ~dk.dirOk[node.id] THEN Thrown("Permission denied")
     ELSE [ok |-> TRUE, files |-> scanEntries(dk, clean, Entries(node.id), 1, <<>>), error |-> "none"]

(***************************************************************************)
(* Duplicate Grouper.                                                      *)
(***************************************************************************)
\* the keys of hashGroups, in the order a Map keeps them: first insertion
RECURSIVE hashKeys(_, _, _)
hashKeys(files, i, keys) ==
  IF i > Len(files) THEN keys
  ELSE IF \E k \in 1..Len(keys) : keys[k] = files[i].hash
       THEN hashKeys(files, i + 1, keys)
       ELSE LET next == Append(keys, files[i].hash)
            IN IF Len(next) > 0 THEN hashKeys(files, i + 1, next) ELSE next

\* mutant of hashGroup: the files are keyed by digest and name
hashGroupByName(files, hash) ==
  SelectSeq(files, LAMBDA f : f.hash = hash /\ \A g \in Range(files) : g.hash = hash => g.name = f.name)

\* hashGroups.get(hash) after the first forEach
hashGroup(files, hash) == SelectSeq(files, LAMBDA f : f.hash = hash)

\* mutant of duplicateGroupsFrom: a group is kept from one member on
RECURSIVE duplicateGroupsFromOne(_, _, _, _)
duplicateGroupsFromOne(files, keys, k, groups) ==
  IF k > Len(keys) THEN groups
  ELSE
    LET groupFiles == hashGroup(files, keys[k])
    IN duplicateGroupsFromOne(files, keys, k + 1,
         IF Len(groupFiles) > 0
         THEN Append(groups, [hash |-> keys[k], files |-> groupFiles, size |-> groupFiles[1].size])
         ELSE groups)

RECURSIVE duplicateGroupsFrom(_, _, _, _)
duplicateGroupsFrom(files, keys, k, groups) ==
  IF k > Len(keys) THEN groups
  ELSE
    LET groupFiles == hashGroup(files, keys[k])
    IN duplicateGroupsFrom(files, keys, k + 1,
         IF Len(groupFiles) > 1
         THEN Append(groups, [hash |-> keys[k], files |-> groupFiles, size |-> groupFiles[1].size])
         ELSE groups)

findDuplicates(files) ==
  duplicateGroupsFrom(files, hashKeys(files, 1, <<>>), 1, <<>>)

(***************************************************************************)
(* Rule Engine / Categorizer.                                              *)
(***************************************************************************)
Uncategorized == <<"U","n","c","a","t","e","g","o","r","i","z","e","d">>

Rule(id, category, keywords, pathPatterns, enabled) ==
  [id |-> id, category |-> category, keywords |-> keywords, pathPatterns |-> pathPatterns, enabled |-> enabled]

\* the rules loadRules falls back to when data/rules.json cannot be read
SCAN_DEFAULT_RULES ==
  << Rule("1", <<"D","e","v","e","l","o","p","e","r"," ","T","o","o","l","s">>,
          << <<"c","o","d","e">>, <<"s","t","u","d","i","o">>, <<"d","e","v">>, <<"g","i","t">>, <<"n","p","m">>, <<"n","o","d","e">>, <<"p","y","t","h","o","n">>, <<"j","a","v","a">>, <<"i","d","e">> >>,
          << <<"/","D","e","v","e","l","o","p","e","r">>, <<"/","A","p","p","l","i","c","a","t","i","o","n","s","/","D","e","v","e","l","o","p","e","r">> >>, TRUE),
     Rule("2", <<"P","r","o","d","u","c","t","i","v","i","t","y">>,
          << <<"o","f","f","i","c","e">>, <<"w","o","r","d">>, <<"e","x","c","e","l">>, <<"p","o","w","e","r","p","o","i","n","t">>, <<"n","o","t","e","s">>, <<"c","a","l","e","n","d","a","r">>, <<"m","a","i","l">> >>,
          << <<"/","A","p","p","l","i","c","a","t","i","o","n","s","/","O","f","f","i","c","e">> >>, TRUE),
     Rule("3", <<"E","n","t","e","r","t","a","i","n","m","e","n","t">>,
          << <<"g","a","m","e">>, <<"m","e","d","i","a">>, <<"p","l","a","y","e","r">>, <<"m","u","s","i","c">>, <<"v","i","d","e","o">>, <<"s","t","e","a","m">> >>,
          << <<"/","G","a","m","e","s">>, <<"/","A","p","p","l","i","c","a","t","i","o","n","s","/","G","a","m","e","s">> >>, TRUE),
     Rule("4", <<"S","y","s","t","e","m"," ","U","t","i","l","i","t","i","e","s">>,
          << <<"s","y","s","t","e","m">>, <<"u","t","i","l","i","t","y">>, <<"c","l","e","a","n","e","r">>, <<"m","o","n","i","t","o","r">>, <<"b","a","c","k","u","p">> >>,
          << <<"/","S","y","s","t","e","m">>, <<"/","u","s","r","/","b","i","n">> >>, TRUE) >>

NoRulesFile == [present |-> FALSE, hasRules |-> FALSE, rules |-> <<>>]

\* mutant of loadRules: the rules file is not read
loadRulesDefaults(file) == SCAN_DEFAULT_RULES

\* loadRules: JSON.parse(rulesData).rules || [], the defaults when the read throws
loadRules(file) ==
  IF ~file.present THEN SCAN_DEFAULT_RULES
  ELSE IF file.hasRules THEN file.rules
  ELSE <<>>

\* rule.keywords.some(...) || rule.pathPatterns.some(...)
ruleMatches(rule, file) ==
  LET fileName == toLowerCase(file.name)
      filePath == toLowerCase(file.path)
      matchesKeyword == \E k \in 1..Len(rule.keywords) : includes(fileName, toLowerCase(rule.keywords[k]))
      matchesPath == \E k \in 1..Len(rule.pathPatterns) : includes(filePath, toLowerCase(rule.pathPatterns[k]))
  IN matchesKeyword \/ matchesPath

\* mutant of assigningRule: the enabled flag is not looked at
RECURSIVE assigningRuleAny(_, _, _)
assigningRuleAny(file, rules, i) ==
  IF i > Len(rules) THEN 0
  ELSE IF ruleMatches(rules[i], file) THEN i
  ELSE assigningRuleAny(file, rules, i + 1)

\* the for loop over the rules: the index of the rule that assigns, 0 for none
RECURSIVE assigningRule(_, _, _)
assigningRule(file, rules, i) ==
  IF i > Len(rules) THEN 0
  ELSE IF ~rules[i].enabled THEN assigningRule(file, rules, i + 1)
  ELSE IF ruleMatches(rules[i], file) THEN i
  ELSE assigningRule(file, rules, i + 1)

withCategory(file, category) ==
  [path |-> file.path, name |-> file.name, size |-> file.size, hash |-> file.hash, category |-> category]

\* an object with string keys, kept as the sequence of its entries in key order
hasKey(obj, key) == \E k \in 1..Len(obj) : obj[k].category = key

\* categorized[category].push(file), creating the list first when missing
pushTo(obj, category, file) ==
  IF hasKey(obj, category)
  THEN [k \in 1..Len(obj) |->
          IF obj[k].category = category
          THEN [category |-> category, files |-> Append(obj[k].files, file)]
          ELSE obj[k]]
  ELSE Append(obj, [category |-> category, files |-> <<file>>])

\* categorized[category] = list
assignKey(obj, category, list) ==
  IF hasKey(obj, category)
  THEN [k \in 1..Len(obj) |->
          IF obj[k].category = category
          THEN [category |-> category, files |-> list]
          ELSE obj[k]]
  ELSE Append(obj, [category |-> category, files |-> list])

\* the forEach over the files: st is <<categorized, uncategorized>>
RECURSIVE categorizeLoop(_, _, _, _, _)
categorizeLoop(files, rules, i, categorized, uncategorized) ==
  IF i > Len(files) THEN <<categorized, uncategorized>>
  ELSE
    LET file == files[i]
        r    == assigningRule(file, rules, 1)
        pushed == pushTo(categorized, rules[r].category, withCategory(file, rules[r].category))
        left == Append(uncategorized, withCategory(file, Uncategorized))
    IN IF r > 0
       THEN (IF Len(pushed) > 0 THEN categorizeLoop(files, rules, i + 1, pushed, uncategorized)
             ELSE <<pushed, uncategorized>>)
       ELSE (IF Len(left) > 0 THEN categorizeLoop(files, rules, i + 1, categorized, left)
             ELSE <<categorized, left>>)

categorizeFiles(files, rules) ==
  LET st == categorizeLoop(files, rules, 1, <<>>, <<>>)
  IN IF Len(st[2]) > 0 THEN assignKey(st[1], Uncategorized, st[2]) ELSE st[1]

(***************************************************************************)
(* Log sink and statistics.                                                *)
(***************************************************************************)
LOG_LIMIT == 1000

LogEntry(level, text, arg) == [level |-> level, text |-> text, arg |-> arg]

\* mutant of logOperation: a full log keeps its first LOG_LIMIT entries
logOperationKeepOldest(log, entry) ==
  LET l == Append(log, entry)
  IN IF Len(l) > LOG_LIMIT THEN SubSeq(l, 1, LOG_LIMIT) ELSE l

\* logOperation: append, keep the last LOG_LIMIT entries
logOperation(log, entry) ==
  LET l == Append(log, entry)
  IN IF Len(l) > LOG_LIMIT THEN SubSeq(l, Len(l) - LOG_LIMIT + 1, Len(l)) ELSE l

RECURSIVE logAll(_, _)
logAll(log, entries) ==
  IF entries = <<>> THEN log ELSE logAll(logOperation(log, Head(entries)), Tail(entries))

\* let scanInterval = null: no timer is set
NoInterval == [active |-> FALSE, directory |-> <<>>, interval |-> 0]

\* no request is in flight
NoRequests == <<>>

\* no data/system-stats.json yet: readers fall back to these defaults
NoStats == [present |-> FALSE, totalScans |-> 0, storageSaved |-> 0, autoScanEnabled |-> FALSE, autoScanInterval |-> 24]

\* updateScanStats: the stored statistics (the defaults when there are none)
\* written back with totalScans one higher
updateScanStats(stats) == [stats EXCEPT !.present = TRUE, !.totalScans = @ + 1]

(***************************************************************************)
(* POST /api/scan                                                          *)
(***************************************************************************)
NoScan == [present |-> FALSE, totalFiles |-> 0, duplicateGroups |-> <<>>, categorizedFiles |-> <<>>]

\* the result object of a scan; scanTime is wall-clock time and is left out
ScanResult(files, rules) ==
  [present |-> TRUE,
   totalFiles |-> Len(files),
   duplicateGroups |-> findDuplicates(files),
   categorizedFiles |-> categorizeFiles(files, rules)]

\* mutant of writeLastScan: the new result is merged into the stored one
writeLastScanMerged(old, result) ==
  IF old.present
  THEN [result EXCEPT !.categorizedFiles = old.categorizedFiles \o result.categorizedFiles,
                      !.duplicateGroups = old.duplicateGroups \o result.duplicateGroups]
  ELSE result

\* fs.writeFile(last-scan.json, JSON.stringify(result)): the file holds the
\* new result and nothing of what it held before
writeLastScan(old, result) == result

Response(op, status, error, body) == [op |-> op, status |-> status, error |-> error, body |-> body]

NoResponse == Response("none", 0, "none", <<>>)

\* what a scan request leaves behind: the files it wrote and its response
ScanOutcome(snapshot, stats, log, resp) ==
  [lastScan |-> snapshot, statsFile |-> stats, logs |-> log, response |-> resp]

\* POST of /api/scan run on the data files as they stand
scanRequest(directory, snapshot, stats, log) ==
  IF directory = <<>>
  THEN ScanOutcome(snapshot, stats, log, Response("scan", 400, "Valid directory path is required", <<>>))
  ELSE
    LET cleanDirectory == cleanPath(directory)
    IN IF cleanDirectory = <<>>
       THEN ScanOutcome(snapshot, stats, log, Response("scan", 400, "Directory path cannot be empty", <<>>))
       ELSE
         LET scan == scanDirectory(disk, cleanDirectory)
             files == scan.files
             result == ScanResult(files, loadRules(rulesFile))
         IN IF scan.ok
            THEN ScanOutcome(
                   writeLastScan(snapshot, result),
                   updateScanStats(stats),
                   logAll(log,
                      << LogEntry("INFO", "Starting scan of directory", cleanDirectory),
                         LogEntry("INFO", "Found application files", numberToString(Len(files))),
                         LogEntry("INFO", "Detected duplicate groups", numberToString(Len(result.duplicateGroups))),
                         LogEntry("INFO", "Categorized files into categories", numberToString(Len(result.categorizedFiles))),
                         LogEntry("INFO", "Scan completed", <<>>) >>),
                   Response("scan", 200, "none", result))
            ELSE ScanOutcome(snapshot, stats,
                   logAll(log,
                      << LogEntry("INFO", "Starting scan of directory", cleanDirectory),
                         LogEntry("ERROR", "Scan failed", cleanDirectory) >>),
                   Response("scan", 400, scan.error, <<>>))

ScanPOST(directory) ==
  LET done == scanRequest(directory, lastScan, statsFile, logs)
  IN /\ lastScan' = done.lastScan
     /\ statsFile' = done.statsFile
     /\ logs' = done.logs
     /\ response' = done.response
     /\ UNCHANGED <<disk, rulesFile, catIn, catOut, simIn, simOut, scanInterval, dnaIn, dnaOut, timers, inflight>>

(***************************************************************************)
(* Similarity Engine.                                                      *)
(***************************************************************************)
Min3(a, b, c) == Min(a, Min(b, c))

\* mutant of matrixCell: the cell above is not looked at
matrixCellNoUp(same, diag, left, up) ==
  IF same THEN diag ELSE Min(diag + 1, left + 1)

\* one cell of the matrix: diag = matrix[i-1][j-1], left = matrix[i][j-1],
\* up = matrix[i-1][j]
matrixCell(same, diag, left, up) ==
  IF same THEN diag ELSE Min3(diag + 1, left + 1, up + 1)

\* row i of the matrix, filled left to right; prev is row i-1 and cur holds
\* the cells of row i filled so far (cur[j+1] is matrix[i][j])
RECURSIVE matrixRow(_, _, _, _)
matrixRow(prev, c2, str1, cur) ==
  IF Len(cur) > Len(str1) THEN cur
  ELSE
    LET j == Len(cur)
    IN matrixRow(prev, c2, str1,
         Append(cur, matrixCell(c2 = str1[j], prev[j], cur[j], prev[j + 1])))

\* the rows of the matrix from row i on; the result is row len2 (a row is
\* never empty: the test only makes row i be computed before row i+1)
RECURSIVE matrixRows(_, _, _, _)
matrixRows(str1, str2, i, prev) ==
  IF i > Len(str2) THEN prev
  ELSE LET row == matrixRow(prev, str2[i], str1, <<i>>)
       IN IF Len(row) > 0 THEN matrixRows(str1, str2, i + 1, row) ELSE row

\* matrix[len2][len1]
editDistance(str1, str2) ==
  matrixRows(str1, str2, 1, [j \in 1..(Len(str1) + 1) |-> j - 1])[Len(str1) + 1]

\* a score is the fraction num / den
Score(num, den) == [num |-> num, den |-> den]

calculateSimilarity(str1, str2) ==
  LET len1 == Len(str1)
      len2 == Len(str2)
      maxLen == Max(len1, len2)
  IN IF len1 = 0 THEN (IF len2 = 0 THEN Score(1, 1) ELSE Score(0, 1))
     ELSE IF len2 = 0 THEN Score(0, 1)
     ELSE Score(maxLen - editDistance(str1, str2), maxLen)

ScoreEq(a, b) == a.num * b.den = b.num * a.den

ScoreGeq(a, b) == a.num * b.den >= b.num * a.den

SIMILARITY_THRESHOLD == Score(85, 100)

\* the path of the file a slot holds
SlotPath(dk, s) == join(DirPath(SlotDir(s)), dk.slot[s].name)

\* fs.stat(filePath): the slot the path names, 0 when stat throws
statPath(dk, filePath) ==
  LET hit == {s \in Slots : /\ dk.slot[s].kind # "none"
                            /\ dk.slot[s].statOk
                            /\ SlotPath(dk, s) = filePath}
  IN IF hit = {} THEN 0 ELSE CHOOSE s \in hit : TRUE

\* extractTextContent: `${fileName} ${stats.size} ${stats.mtime.toISOString()}`,
\* or the base name with its extension when stat throws
extractTextContent(dk, filePath) ==
  LET ext == toLowerCase(extname(basename(filePath)))
      fileName == basenameExt(filePath, ext)
      s == statPath(dk, filePath)
  IN IF s = 0 THEN basename(filePath)
     ELSE fileName \o <<" ">> \o numberToString(SizeOf(dk.slot[s])) \o <<" ">> \o dk.slot[s].mtime

\* Object.entries(categorizedFiles) flattened
RECURSIVE allFilesOf(_, _)
allFilesOf(categorized, k) ==
  IF k > Len(categorized) THEN <<>>
  ELSE categorized[k].files \o allFilesOf(categorized, k + 1)

\* mutant of identical: no pair is skipped
identicalNever(file1, file2) == FALSE

\* file1.hash === file2.hash: the pair is skipped
identical(file1, file2) == file1.hash = file2.hash

\* the two nested loops, in the order they visit the pairs (i, j), i < j
RECURSIVE similarLoop(_, _, _, _, _)
similarLoop(dk, allFiles, i, j, similarPairs) ==
  IF i > Len(allFiles) THEN similarPairs
  ELSE IF j > Len(allFiles) THEN similarLoop(dk, allFiles, i + 1, i + 2, similarPairs)
  ELSE
    LET file1 == allFiles[i]
        file2 == allFiles[j]
        similarity == calculateSimilarity(extractTextContent(dk, file1.path), extractTextContent(dk, file2.path))
    IN IF identical(file1, file2)
       THEN similarLoop(dk, allFiles, i, j + 1, similarPairs)
       ELSE IF ScoreGeq(similarity, SIMILARITY_THRESHOLD)
            THEN similarLoop(dk, allFiles, i, j + 1,
                   Append(similarPairs, [file1 |-> file1, file2 |-> file2, similarity |-> similarity]))
            ELSE similarLoop(dk, allFiles, i, j + 1, similarPairs)

\* similarPairs.sort((a, b) => b.similarity - a.similarity): a stable sort,
\* highest similarity first
RECURSIVE insertPair(_, _)
insertPair(sorted, p) ==
  IF sorted = <<>> THEN <<p>>
  ELSE IF ScoreGeq(Head(sorted).similarity, p.similarity)
       THEN <<Head(sorted)>> \o insertPair(Tail(sorted), p)
       ELSE <<p>> \o sorted

RECURSIVE sortPairs(_, _)
sortPairs(pairs, sorted) ==
  IF pairs = <<>> THEN sorted ELSE sortPairs(Tail(pairs), insertPair(sorted, Head(pairs)))

\* findSimilarFiles: no pairs when the last scan cannot be read; the diff
\* preview of a pair is text for display and is left out
findSimilarFiles(dk, scan) ==
  IF ~scan.present THEN <<>>
  ELSE sortPairs(similarLoop(dk, allFilesOf(scan.categorizedFiles, 1), 1, 2, <<>>), <<>>)

(***************************************************************************)
(* POST /api/similar-files                                                 *)
(***************************************************************************)
SimilarPOST(directory) ==
  IF directory = <<>>
  THEN /\ response' = Response("similar", 400, "Directory is required", <<>>)
       /\ UNCHANGED <<disk, lastScan, rulesFile, statsFile, logs, catIn, catOut, simIn, simOut, scanInterval, dnaIn, dnaOut, timers, inflight>>
  ELSE
    LET similarFiles == findSimilarFiles(disk, lastScan)
    IN /\ logs' = logAll(logs,
            << LogEntry("INFO", "Starting similar files analysis for", directory),
               LogEntry("INFO", "Similar files analysis completed", numberToString(Len(similarFiles))) >>)
       /\ response' = Response("similar", 200, "none", similarFiles)
       /\ UNCHANGED <<disk, lastScan, rulesFile, statsFile, catIn, catOut, simIn, simOut, scanInterval, dnaIn, dnaOut, timers, inflight>>

(***************************************************************************)
(* Smart suggestions: GET and POST /api/smart-suggestions.                 *)
(***************************************************************************)
IsDigit(c) == c \in Range(Digit)

\* .replace(/\d+/g, '')
removeDigits(s) == SelectSeq(s, LAMBDA c : ~IsDigit(c))

\* .replace(/[._-]/g, ' ')
separatorsToSpaces(s) == [i \in 1..Len(s) |-> IF s[i] \in {".", "_", "-"} THEN " " ELSE s[i]]

\* .replace(/\s+/g, ' ')
RECURSIVE collapseSpaces(_)
collapseSpaces(s) ==
  IF Len(s) = 0 THEN s
  ELSE IF Len(s) >= 2 /\ IsSpace(s[1]) /\ IsSpace(s[2]) THEN collapseSpaces(Tail(s))
  ELSE <<IF IsSpace(s[1]) THEN " " ELSE s[1]>> \o collapseSpaces(Tail(s))

\* the key under which detectSimilarApps groups a file
baseName(file) == trim(collapseSpaces(separatorsToSpaces(removeDigits(toLowerCase(file.name)))))

\* a Map from key to a list of files, kept as the sequence of its entries in
\* insertion order
mapPush(map, key, file) ==
  IF \E k \in 1..Len(map) : map[k].key = key
  THEN [k \in 1..Len(map) |->
          IF map[k].key = key THEN [key |-> key, files |-> Append(map[k].files, file)] ELSE map[k]]
  ELSE Append(map, [key |-> key, files |-> <<file>>])

RECURSIVE appGroups(_, _, _)
appGroups(files, i, map) ==
  IF i > Len(files) THEN map
  ELSE LET next == mapPush(map, baseName(files[i]), files[i])
       IN IF Len(next) > 0 THEN appGroups(files, i + 1, next) ELSE next

\* groupFiles.sort((a, b) => b.size - a.size): a stable sort, largest first
RECURSIVE insertBySize(_, _)
insertBySize(sorted, f) ==
  IF sorted = <<>> THEN <<f>>
  ELSE IF Head(sorted).size >= f.size
       THEN <<Head(sorted)>> \o insertBySize(Tail(sorted), f)
       ELSE <<f>> \o sorted

\* mutant of sortBySize: the group stays in the order the files were met
sortBySizeKeepOrder(files, sorted) == files

RECURSIVE sortBySize(_, _)
sortBySize(files, sorted) ==
  IF files = <<>> THEN sorted ELSE sortBySize(Tail(files), insertBySize(sorted, Head(files)))

\* files.reduce((acc, file) => acc + file.size, 0)
RECURSIVE sumSizes(_)
sumSizes(files) == IF files = <<>> THEN 0 ELSE Head(files).size + sumSizes(Tail(files))

SuggestionFile(file, action) ==
  [path |-> file.path, name |-> file.name, size |-> file.size, action |-> action]

\* a suggestion; its id holds the clock and a random number and its
\* description is text for display, both are left out
SmartSuggestion(type, title, files, potentialSavings, confidence, priority) ==
  [type |-> type, title |-> title, files |-> files,
   potentialSavings |-> potentialSavings, confidence |-> confidence, priority |-> priority]

markAll(files, action) == [i \in 1..Len(files) |-> SuggestionFile(files[i], action)]

RECURSIVE similarSuggestions(_, _)
similarSuggestions(map, k) ==
  IF k > Len(map) THEN <<>>
  ELSE IF Len(map[k].files) > 1
       THEN LET groupFiles == sortBySize(map[k].files, <<>>)
                keepFile == groupFiles[1]
                removeFiles == Tail(groupFiles)
            IN <<SmartSuggestion("version_consolidation", map[k].key,
                    <<SuggestionFile(keepFile, "keep")>> \o markAll(removeFiles, "remove"),
                    sumSizes(removeFiles), "medium", Len(removeFiles) * 10)>>
               \o similarSuggestions(map, k + 1)
       ELSE similarSuggestions(map, k + 1)

detectSimilarApps(files) == similarSuggestions(appGroups(files, 1, <<>>), 1)

unusedPatterns ==
  << <<"t","r","i","a","l">>, <<"d","e","m","o">>, <<"t","e","m","p">>, <<"o","l","d">>, <<"b","a","c","k","u","p">>, <<"c","o","p","y">>,
     <<"i","n","s","t","a","l","l","e","r">>, <<"s","e","t","u","p">>, <<"u","n","i","n","s","t","a","l","l">> >>

detectUnusedApps(files) ==
  LET potentiallyUnused ==
        SelectSeq(files, LAMBDA file :
          \E p \in 1..Len(unusedPatterns) : includes(toLowerCase(file.name), unusedPatterns[p]))
  IN IF Len(potentiallyUnused) > 0
     THEN <<SmartSuggestion("unused_cleanup", <<"u","n","u","s","e","d">>, markAll(potentiallyUnused, "remove"),
              sumSizes(potentiallyUnused), "low", 5)>>
     ELSE <<>>

redundantGroups ==
  << [category |-> <<"M","e","d","i","a"," ","P","l","a","y","e","r","s">>,
      apps |-> << <<"v","l","c">>, <<"k","m","p","l","a","y","e","r">>, <<"w","i","n","d","o","w","s"," ","m","e","d","i","a"," ","p","l","a","y","e","r">>, <<"q","u","i","c","k","t","i","m","e">>, <<"r","e","a","l","p","l","a","y","e","r">> >>,
      recommend |-> <<"v","l","c">>],
     [category |-> <<"W","e","b"," ","B","r","o","w","s","e","r","s">>,
      apps |-> << <<"c","h","r","o","m","e">>, <<"f","i","r","e","f","o","x">>, <<"e","d","g","e">>, <<"s","a","f","a","r","i">>, <<"o","p","e","r","a">>, <<"i","n","t","e","r","n","e","t"," ","e","x","p","l","o","r","e","r">> >>,
      recommend |-> <<"c","h","r","o","m","e">>],
     [category |-> <<"T","e","x","t"," ","E","d","i","t","o","r","s">>,
      apps |-> << <<"n","o","t","e","p","a","d","+","+">>, <<"s","u","b","l","i","m","e">>, <<"a","t","o","m">>, <<"b","r","a","c","k","e","t","s">>, <<"n","o","t","e","p","a","d">> >>,
      recommend |-> <<"n","o","t","e","p","a","d","+","+">>],
     [category |-> <<"A","r","c","h","i","v","e"," ","T","o","o","l","s">>,
      apps |-> << <<"w","i","n","r","a","r">>, <<"7","z","i","p">>, <<"w","i","n","z","i","p">>, <<"p","e","a","z","i","p">> >>,
      recommend |-> <<"7","z","i","p">>] >>

\* the positions in files of the files one group finds
foundApps(files, group) ==
  SelectSeq([i \in 1..Len(files) |-> i], LAMBDA i :
    \E a \in 1..Len(group.apps) : includes(toLowerCase(files[i].name), group.apps[a]))

\* mutant of recommendedApp: the first file found is kept
recommendedAppFirst(files, group, found) == found[1]

\* foundApps.find(the recommended one) || foundApps[0], as a position
recommendedApp(files, group, found) ==
  LET hits == SelectSeq(found, LAMBDA i : includes(toLowerCase(files[i].name), group.recommend))
  IN IF Len(hits) > 0 THEN hits[1] ELSE found[1]

RECURSIVE redundantSuggestions(_, _)
redundantSuggestions(files, g) ==
  IF g > Len(redundantGroups) THEN <<>>
  ELSE
    LET group == redundantGroups[g]
        found == foundApps(files, group)
    IN IF Len(found) > 1
       THEN LET rec == recommendedApp(files, group, found)
                redundantApps == SelectSeq(found, LAMBDA i : i # rec)
                redundantFiles == [k \in 1..Len(redundantApps) |-> files[redundantApps[k]]]
            IN (IF Len(redundantApps) > 0
                THEN <<SmartSuggestion("duplicate_removal", group.category,
                         <<SuggestionFile(files[rec], "keep")>> \o markAll(redundantFiles, "remove"),
                         sumSizes(redundantFiles), "high", Len(redundantApps) * 15)>>
                ELSE <<>>)
               \o redundantSuggestions(files, g + 1)
       ELSE redundantSuggestions(files, g + 1)

detectRedundantApps(files) == redundantSuggestions(files, 1)

\* suggestions.sort((a, b) => b.priority - a.priority): a stable sort,
\* highest priority first
RECURSIVE insertByPriority(_, _)
insertByPriority(sorted, s) ==
  IF sorted = <<>> THEN <<s>>
  ELSE IF Head(sorted).priority >= s.priority
       THEN <<Head(sorted)>> \o insertByPriority(Tail(sorted), s)
       ELSE <<s>> \o sorted

\* mutant of sortByPriority: the suggestions stay in the order of the detectors
sortByPriorityUnsorted(suggestions, sorted) == suggestions

RECURSIVE sortByPriority(_, _)
sortByPriority(suggestions, sorted) ==
  IF suggestions = <<>> THEN sorted
  ELSE sortByPriority(Tail(suggestions), insertByPriority(sorted, Head(suggestions)))

SUGGESTION_LIMIT == 20

\* what the three detectors produce, in the order GET concatenates them
generatedSuggestions(allFiles) ==
  detectSimilarApps(allFiles) \o detectUnusedApps(allFiles) \o detectRedundantApps(allFiles)

RECURSIVE sumSavings(_)
sumSavings(suggestions) ==
  IF suggestions = <<>> THEN 0 ELSE Head(suggestions).potentialSavings + sumSavings(Tail(suggestions))

NoSummary == [totalSuggestions |-> 0, totalPotentialSavings |-> 0]

\* GET /api/smart-suggestions
SuggestGET ==
  LET allFiles == IF lastScan.present THEN allFilesOf(lastScan.categorizedFiles, 1) ELSE <<>>
      suggestions == sortByPriority(generatedSuggestions(allFiles), <<>>)
  IN /\ response' =
          IF ~lastScan.present \/ Len(allFiles) = 0
          THEN Response("suggest", 200, "none", [suggestions |-> <<>>, summary |-> NoSummary])
          ELSE Response("suggest", 200, "none",
                 [suggestions |-> SubSeq(suggestions, 1, Min(Len(suggestions), SUGGESTION_LIMIT)),
                  summary |-> [totalSuggestions |-> Len(suggestions),
                               totalPotentialSavings |-> sumSavings(suggestions)]])
     /\ UNCHANGED <<disk, lastScan, rulesFile, statsFile, logs, catIn, catOut, simIn, simOut, scanInterval, dnaIn, dnaOut, timers, inflight>>

\* mutant of SuggestPOST: the suggested action is carried out on the snapshot
SuggestPOSTCarriedOut(suggestionId, action) ==
  /\ suggestionId # <<>> /\ action # <<>>
  /\ lastScan' = NoScan
  /\ logs' = logOperation(logs, LogEntry("INFO", "Smart suggestion", suggestionId \o <<" ">> \o action))
  /\ response' = Response("suggestion-action", 200, "none", <<>>)
  /\ UNCHANGED <<disk, rulesFile, statsFile, catIn, catOut, simIn, simOut, scanInterval, dnaIn, dnaOut, timers, inflight>>

\* POST /api/smart-suggestions: the action is logged and nothing else is done
SuggestPOST(suggestionId, action) ==
  IF suggestionId = <<>> \/ action = <<>>
  THEN /\ response' = Response("suggestion-action", 400, "Suggestion ID and action are required", <<>>)
       /\ UNCHANGED <<disk, lastScan, rulesFile, statsFile, logs, catIn, catOut, simIn, simOut, scanInterval, dnaIn, dnaOut, timers, inflight>>
  ELSE /\ logs' = logOperation(logs, LogEntry("INFO", "Smart suggestion", suggestionId \o <<" ">> \o action))
       /\ response' = Response("suggestion-action", 200, "none", <<>>)
       /\ UNCHANGED <<disk, lastScan, rulesFile, statsFile, catIn, catOut, simIn, simOut, scanInterval, dnaIn, dnaOut, timers, inflight>>

(***************************************************************************)
(* POST /api/delete                                                        *)
(***************************************************************************)
\* mutant of updateStorageStats: the total is replaced by the last request's savings
updateStorageStatsReplace(stats, spaceSaved) ==
  [stats EXCEPT !.present = TRUE, !.storageSaved = spaceSaved]

\* updateStorageStats: the stored statistics (the defaults when there are
\* none) written back with storageSaved raised.  The code counts megabytes,
\* size / 2^20, which floating point holds exactly; the model counts bytes.
updateStorageStats(stats, spaceSaved) ==
  [stats EXCEPT !.present = TRUE, !.storageSaved = @ + spaceSaved]

\* the slots holding an entry at a path
slotsAt(dk, filePath) ==
  {s \in Slots : dk.slot[s].kind # "none" /\ SlotPath(dk, s) = filePath}

\* fs.stat(filePath) then fs.unlink(filePath) for one requested path: the
\* slot that was removed, 0 when either call throws.  A path that names
\* nothing, an entry that cannot be examined, a directory, and an entry of
\* a directory the process may not write to (locked, and the file at
\* PlainFilePath) make one of the calls throw.
unlinked(dk, filePath, locked) ==
  LET hit == slotsAt(dk, filePath)
  IN IF hit = {} THEN 0
     ELSE LET s == CHOOSE x \in hit : TRUE
          IN IF dk.slot[s].statOk /\ s \notin locked THEN s ELSE 0

\* mutant of deleteLoop: the first path that fails ends the batch
RECURSIVE deleteLoopAbort(_, _, _, _)
deleteLoopAbort(files, i, locked, st) ==
  IF i > Len(files) THEN st
  ELSE
    LET filePath == files[i]
        s == unlinked(st.disk, filePath, locked)
    IN IF s # 0
       THEN deleteLoopAbort(files, i + 1, locked,
              [disk |-> [st.disk EXCEPT !.slot[s] = NoFile],
               logs |-> logOperation(st.logs, LogEntry("INFO", "Deleted file", filePath)),
               deletedCount |-> st.deletedCount + 1,
               totalSpaceSaved |-> st.totalSpaceSaved + SizeOf(st.disk.slot[s]),
               errors |-> st.errors])
       ELSE [st EXCEPT !.logs = logOperation(st.logs, LogEntry("ERROR", "Failed to delete", filePath)),
                       !.errors = Append(st.errors, filePath)]

\* the for loop over the requested paths; st holds the disk, the log and the
\* three accumulators
RECURSIVE deleteLoop(_, _, _, _)
deleteLoop(files, i, locked, st) ==
  IF i > Len(files) THEN st
  ELSE
    LET filePath == files[i]
        s == unlinked(st.disk, filePath, locked)
        next ==
          IF s # 0
          THEN [disk |-> [st.disk EXCEPT !.slot[s] = NoFile],
                logs |-> logOperation(st.logs, LogEntry("INFO", "Deleted file", filePath)),
                deletedCount |-> st.deletedCount + 1,
                totalSpaceSaved |-> st.totalSpaceSaved + SizeOf(st.disk.slot[s]),
                errors |-> st.errors]
          ELSE [disk |-> st.disk,
                logs |-> logOperation(st.logs, LogEntry("ERROR", "Failed to delete", filePath)),
                deletedCount |-> st.deletedCount,
                totalSpaceSaved |-> st.totalSpaceSaved,
                errors |-> Append(st.errors, filePath)]
    IN IF next.deletedCount >= 0 THEN deleteLoop(files, i + 1, locked, next) ELSE next

\* the files field of a request body: missing, something that is no array,
\* or an array of paths
NoFilesField == [kind |-> "missing", paths |-> <<>>]

NotAnArray(text) == [kind |-> "string", paths |-> <<text>>]

PathArray(paths) == [kind |-> "array", paths |-> paths]

DeletePOST(files, locked) ==
  IF files.kind # "array"
  THEN /\ response' = Response("delete", 400, "Files array is required", <<>>)
       /\ UNCHANGED <<disk, lastScan, rulesFile, statsFile, logs, catIn, catOut, simIn, simOut, scanInterval, dnaIn, dnaOut, timers, inflight>>
  ELSE
    LET start == [disk |-> disk,
                  logs |-> logOperation(logs, LogEntry("INFO", "Starting deletion of files", numberToString(Len(files.paths)))),
                  deletedCount |-> 0, totalSpaceSaved |-> 0, errors |-> <<>>]
        end == deleteLoop(files.paths, 1, locked, start)
    IN /\ disk' = end.disk
       /\ statsFile' = IF end.totalSpaceSaved > 0 THEN updateStorageStats(statsFile, end.totalSpaceSaved) ELSE statsFile
       /\ logs' = logOperation(end.logs, LogEntry("INFO", "Deletion completed", numberToString(end.deletedCount)))
       /\ response' = Response("delete", 200, "none",
            [deletedCount |-> end.deletedCount, spaceSaved |-> end.totalSpaceSaved,
             errors |-> end.errors, success |-> end.deletedCount > 0])
       /\ UNCHANGED <<lastScan, rulesFile, catIn, catOut, simIn, simOut, scanInterval, dnaIn, dnaOut, timers, inflight>>

(***************************************************************************)
(* POST /api/organize                                                      *)
(***************************************************************************)
IsAlnum(c) == c \in Range(Upper) \/ c \in Range(Lower) \/ c \in Range(Digit)

\* category.replace(/[^a-zA-Z0-9]/g, '_')
sanitize(category) == [i \in 1..Len(category) |-> IF IsAlnum(category[i]) THEN category[i] ELSE "_"]

\* the content of the file at a path: a slot's entry or a copy made earlier
copyAt(dk, filePath) == { c \in dk.copies : c.path = filePath }

\* fs.access(file.path) then fs.copyFile(file.path, destinationPath): the
\* disk afterwards, ok false when either call throws.  The source must be
\* there and readable; a destination that is a directory makes copyFile
\* throw; a destination that is the source itself is left as it is; any
\* other destination holds the source's bytes afterwards, whatever it held.
copyFile(dk, source, destinationPath) ==
  LET from == slotsAt(dk, source)
      onto == slotsAt(dk, destinationPath)
  IN IF from = {} /\ copyAt(dk, source) = {} THEN [ok |-> FALSE, disk |-> dk]
     ELSE
       LET readable == IF from # {} THEN \A s \in from : dk.slot[s].statOk /\ dk.slot[s].readOk ELSE TRUE
           bytes == IF from # {} THEN dk.slot[CHOOSE s \in from : TRUE].bytes
                    ELSE (CHOOSE c \in copyAt(dk, source) : TRUE).bytes
       IN IF ~readable \/ Resolve(destinationPath).t = "dir" THEN [ok |-> FALSE, disk |-> dk]
          ELSE IF source = destinationPath THEN [ok |-> TRUE, disk |-> dk]
          ELSE IF onto # {}
               THEN [ok |-> TRUE,
                     disk |-> [dk EXCEPT !.slot = [s \in Slots |->
                                 IF s \in onto THEN [dk.slot[s] EXCEPT !.bytes = bytes, !.mtime = Time2]
                                 ELSE dk.slot[s]]]]
               ELSE [ok |-> TRUE,
                     disk |-> [dk EXCEPT !.copies =
                                 (@ \ copyAt(dk, destinationPath)) \cup {[path |-> destinationPath, bytes |-> bytes]}]]

\* the inner for loop over the files of one category
RECURSIVE organizeFiles(_, _, _, _)
organizeFiles(files, i, categoryDir, st) ==
  IF i > Len(files) THEN st
  ELSE
    LET file == files[i]
        fileName == basename(file.path)
        destinationPath == join(categoryDir, fileName)
        copy == copyFile(st.disk, file.path, destinationPath)
        next ==
          IF copy.ok
          THEN [disk |-> copy.disk,
                logs |-> logOperation(st.logs, LogEntry("INFO", "Organized file", file.path)),
                organizedCount |-> st.organizedCount + 1,
                errors |-> st.errors]
          ELSE [disk |-> st.disk,
                logs |-> logOperation(st.logs, LogEntry("ERROR", "Failed to organize", file.path)),
                organizedCount |-> st.organizedCount,
                errors |-> Append(st.errors, file.path)]
    IN IF next.organizedCount >= 0 THEN organizeFiles(files, i + 1, categoryDir, next) ELSE next

\* the outer for loop over the entries of categorizedFiles
RECURSIVE organizeCategories(_, _, _, _)
organizeCategories(categorized, k, outputDir, st) ==
  IF k > Len(categorized) THEN st
  ELSE
    LET categoryDir == join(outputDir, sanitize(categorized[k].category))
        next == organizeFiles(categorized[k].files, 1, categoryDir, st)
    IN IF next.organizedCount >= 0 THEN organizeCategories(categorized, k + 1, outputDir, next) ELSE next

\* POST /api/organize; cwd is process.cwd()
OrganizePOST(directory, cwd) ==
  IF directory = <<>>
  THEN /\ response' = Response("organize", 400, "Directory path is required", <<>>)
       /\ UNCHANGED <<disk, lastScan, rulesFile, statsFile, logs, catIn, catOut, simIn, simOut, scanInterval, dnaIn, dnaOut, timers, inflight>>
  ELSE IF ~lastScan.present
  THEN /\ response' = Response("organize", 400, "No scan results found. Please run a scan first.", <<>>)
       /\ UNCHANGED <<disk, lastScan, rulesFile, statsFile, logs, catIn, catOut, simIn, simOut, scanInterval, dnaIn, dnaOut, timers, inflight>>
  ELSE
    LET outputDir == join(cwd, <<"o","u","t","p","u","t">>)
        start == [disk |-> disk,
                  logs |-> logOperation(logs, LogEntry("INFO", "Starting file organization", <<>>)),
                  organizedCount |-> 0, errors |-> <<>>]
        end == organizeCategories(lastScan.categorizedFiles, 1, outputDir, start)
    IN /\ disk' = end.disk
       /\ logs' = logOperation(end.logs, LogEntry("INFO", "Organization completed", numberToString(end.organizedCount)))
       /\ response' = Response("organize", 200, "none",
            [organizedCount |-> end.organizedCount, errors |-> end.errors, success |-> end.organizedCount > 0])
       /\ UNCHANGED <<lastScan, rulesFile, statsFile, catIn, catOut, simIn, simOut, scanInterval, dnaIn, dnaOut, timers, inflight>>

(***************************************************************************)
(* POST /api/rules: the operator saves a rule list.                        *)
(***************************************************************************)
NoRulesField == [kind |-> "missing", rules |-> <<>>]

RulesNotAnArray(text) == [kind |-> "string", rules |-> <<text>>]

RuleArray(rules) == [kind |-> "array", rules |-> rules]

\* mutant of RulesPOST: a payload without a rules array is saved as the empty list
RulesPOSTLenient(rules) ==
  /\ rulesFile' = [present |-> TRUE, hasRules |-> TRUE, rules |-> IF rules.kind = "array" THEN rules.rules ELSE <<>>]
  /\ logs' = logOperation(logs, LogEntry("INFO", "Updated categorization rules", numberToString(Len(rules.rules))))
  /\ response' = Response("rules", 200, "none", <<>>)
  /\ UNCHANGED <<disk, lastScan, statsFile, catIn, catOut, simIn, simOut, scanInterval, dnaIn, dnaOut, timers, inflight>>

\* !rules || !Array.isArray(rules) is true of everything that is not an array
RulesPOST(rules) ==
  IF rules.kind # "array"
  THEN /\ response' = Response("rules", 400, "Rules array is required", <<>>)
       /\ UNCHANGED <<disk, lastScan, rulesFile, statsFile, logs, catIn, catOut, simIn, simOut, scanInterval, dnaIn, dnaOut, timers, inflight>>
  ELSE /\ rulesFile' = [present |-> TRUE, hasRules |-> TRUE, rules |-> rules.rules]
       /\ logs' = logOperation(logs, LogEntry("INFO", "Updated categorization rules", numberToString(Len(rules.rules))))
       /\ response' = Response("rules", 200, "none", <<>>)
       /\ UNCHANGED <<disk, lastScan, statsFile, catIn, catOut, simIn, simOut, scanInterval, dnaIn, dnaOut, timers, inflight>>

(***************************************************************************)
(* GET /api/rules: the rule list the operator is shown.                    *)
(***************************************************************************)
\* DEFAULT_RULES of the rules route
DEFAULT_RULES ==
  << Rule("1", <<"D","e","v","e","l","o","p","e","r"," ","T","o","o","l","s">>,
          << <<"c","o","d","e">>, <<"s","t","u","d","i","o">>, <<"d","e","v">>, <<"g","i","t">>, <<"n","p","m">>, <<"n","o","d","e">>, <<"p","y","t","h","o","n">>, <<"j","a","v","a">>, <<"i","d","e">>, <<"e","d","i","t","o","r">>, <<"c","o","m","p","i","l","e","r">> >>,
          << <<"/","D","e","v","e","l","o","p","e","r">>, <<"/","A","p","p","l","i","c","a","t","i","o","n","s","/","D","e","v","e","l","o","p","e","r">>, <<"P","r","o","g","r","a","m"," ","F","i","l","e","s","/","M","i","c","r","o","s","o","f","t"," ","V","i","s","u","a","l"," ","S","t","u","d","i","o">> >>, TRUE),
     Rule("2", <<"P","r","o","d","u","c","t","i","v","i","t","y">>,
          << <<"o","f","f","i","c","e">>, <<"w","o","r","d">>, <<"e","x","c","e","l">>, <<"p","o","w","e","r","p","o","i","n","t">>, <<"n","o","t","e","s">>, <<"c","a","l","e","n","d","a","r">>, <<"m","a","i","l">>, <<"o","u","t","l","o","o","k">>, <<"t","e","a","m","s">> >>,
          << <<"/","A","p","p","l","i","c","a","t","i","o","n","s","/","O","f","f","i","c","e">>, <<"P","r","o","g","r","a","m"," ","F","i","l","e","s","/","M","i","c","r","o","s","o","f","t"," ","O","f","f","i","c","e">> >>, TRUE),
     Rule("3", <<"E","n","t","e","r","t","a","i","n","m","e","n","t">>,
          << <<"g","a","m","e">>, <<"m","e","d","i","a">>, <<"p","l","a","y","e","r">>, <<"m","u","s","i","c">>, <<"v","i","d","e","o">>, <<"s","t","e","a","m">>, <<"s","p","o","t","i","f","y">>, <<"n","e","t","f","l","i","x">>, <<"y","o","u","t","u","b","e">> >>,
          << <<"/","G","a","m","e","s">>, <<"/","A","p","p","l","i","c","a","t","i","o","n","s","/","G","a","m","e","s">>, <<"P","r","o","g","r","a","m"," ","F","i","l","e","s","/","S","t","e","a","m">> >>, TRUE),
     Rule("4", <<"S","y","s","t","e","m"," ","U","t","i","l","i","t","i","e","s">>,
          << <<"s","y","s","t","e","m">>, <<"u","t","i","l","i","t","y">>, <<"c","l","e","a","n","e","r">>, <<"m","o","n","i","t","o","r">>, <<"b","a","c","k","u","p">>, <<"a","n","t","i","v","i","r","u","s">>, <<"f","i","r","e","w","a","l","l">> >>,
          << <<"/","S","y","s","t","e","m">>, <<"/","u","s","r","/","b","i","n">>, <<"P","r","o","g","r","a","m"," ","F","i","l","e","s","/","W","i","n","d","o","w","s"," ","D","e","f","e","n","d","e","r">> >>, TRUE),
     Rule("5", <<"G","r","a","p","h","i","c","s"," ","&"," ","D","e","s","i","g","n">>,
          << <<"p","h","o","t","o","s","h","o","p">>, <<"i","l","l","u","s","t","r","a","t","o","r">>, <<"d","e","s","i","g","n">>, <<"g","r","a","p","h","i","c","s">>, <<"i","m","a","g","e">>, <<"p","h","o","t","o">>, <<"s","k","e","t","c","h">>, <<"f","i","g","m","a">> >>,
          << <<"/","A","p","p","l","i","c","a","t","i","o","n","s","/","A","d","o","b","e">>, <<"P","r","o","g","r","a","m"," ","F","i","l","e","s","/","A","d","o","b","e">> >>, TRUE),
     Rule("6", <<"C","o","m","m","u","n","i","c","a","t","i","o","n">>,
          << <<"c","h","a","t">>, <<"m","e","s","s","e","n","g","e","r">>, <<"s","l","a","c","k">>, <<"d","i","s","c","o","r","d">>, <<"z","o","o","m">>, <<"s","k","y","p","e">>, <<"t","e","l","e","g","r","a","m">>, <<"w","h","a","t","s","a","p","p">> >>,
          <<>>, TRUE) >>

\* let rules = DEFAULT_RULES; rules = parsedData.rules || DEFAULT_RULES
rulesOfGET(file) ==
  IF file.present /\ file.hasRules THEN file.rules ELSE DEFAULT_RULES

\* the catch of the read writes the defaults to data/rules.json
RulesGET ==
  /\ rulesFile' = IF rulesFile.present THEN rulesFile
                  ELSE [present |-> TRUE, hasRules |-> TRUE, rules |-> DEFAULT_RULES]
  /\ response' = Response("rules-get", 200, "none", [rules |-> rulesOfGET(rulesFile)])
  /\ UNCHANGED <<disk, lastScan, statsFile, logs, catIn, catOut, simIn, simOut, scanInterval, dnaIn, dnaOut, timers, inflight>>


(***************************************************************************)
(* POST /api/logs/clear                                                    *)
(***************************************************************************)
\* logOperation of the clear route: const logs = [logEntry]
clearLogOperation(log, entry) == <<entry>>

ClearLogsPOST ==
  /\ logs' = clearLogOperation(logs, LogEntry("INFO", "Logs cleared by user", <<>>))
  /\ response' = Response("clear-logs", 200, "none", <<>>)
  /\ UNCHANGED <<disk, lastScan, rulesFile, statsFile, catIn, catOut, simIn, simOut, scanInterval, dnaIn, dnaOut, timers, inflight>>

(***************************************************************************)
(* POST /api/stats: the fields of the body replace those of the stored     *)
(* statistics.                                                             *)
(***************************************************************************)
\* { ...currentStats, ...updates }
mergeStats(stats, updates) ==
  [f \in DOMAIN stats |->
     IF f = "present" THEN TRUE
     ELSE IF f \in DOMAIN updates THEN updates[f] ELSE stats[f]]

StatsPOST(updates) ==
  /\ statsFile' = mergeStats(statsFile, updates)
  /\ response' = Response("stats", 200, "none", mergeStats(statsFile, updates))
  /\ UNCHANGED <<disk, lastScan, rulesFile, logs, catIn, catOut, simIn, simOut, scanInterval, dnaIn, dnaOut, timers, inflight>>


(***************************************************************************)
(* Auto-scan: the configuration request and the timer callback.  The log   *)
(* writes startAutoScan and stopAutoScan do not wait for are taken to have *)
(* finished when the request returns.                                      *)
(***************************************************************************)
\* interval || fallback: a missing interval arrives as 0
orElse(interval, fallback) == IF interval = 0 THEN fallback ELSE interval

\* a timer of the runtime: the directory its callback scans, every interval hours
Timer(directory, interval) == [directory |-> directory, interval |-> interval]

\* setInterval: the runtime holds one more timer
setInterval(live, timer) == Append(live, timer)

\* clearInterval(handle): the runtime drops the timer the handle names
clearInterval(live, handle) ==
  LET at == { i \in 1..Len(live) : live[i] = Timer(handle.directory, handle.interval) }
  IN IF at = {} THEN live
     ELSE LET first == CHOOSE i \in at : \A j \in at : i <= j
          IN SubSeq(live, 1, first - 1) \o SubSeq(live, first + 1, Len(live))

\* mutant of startAutoScan: the timer of the old handle is left running
startAutoScanKeepOld(live, handle, timer) == setInterval(live, timer)

\* startAutoScan: if (scanInterval) clearInterval(scanInterval); then setInterval
startAutoScan(live, handle, timer) ==
  setInterval(IF handle.active THEN clearInterval(live, handle) ELSE live, timer)

\* stats.autoScanEnabled = enabled; stats.autoScanInterval = interval || stats.autoScanInterval
autoScanStats(stats, enabled, interval) ==
  [stats EXCEPT !.present = TRUE,
                !.autoScanEnabled = enabled,
                !.autoScanInterval = orElse(interval, @)]

AutoScanPOST(enabled, interval, directory) ==
  IF directory = <<>> /\ enabled
  THEN /\ response' = Response("auto-scan", 400, "Directory is required when enabling auto-scan", <<>>)
       /\ UNCHANGED <<disk, lastScan, rulesFile, statsFile, logs, catIn, catOut, simIn, simOut, scanInterval, dnaIn, dnaOut, timers, inflight>>
  ELSE /\ statsFile' = autoScanStats(statsFile, enabled, interval)
       /\ IF enabled
          THEN /\ timers' = startAutoScan(timers, scanInterval, Timer(directory, orElse(interval, 24)))
               /\ scanInterval' = [active |-> TRUE, directory |-> directory, interval |-> orElse(interval, 24)]
               /\ logs' = logOperation(logs, LogEntry("INFO", "Auto-scan scheduled", numberToString(orElse(interval, 24)) \o <<" ">> \o directory))
          ELSE \* stopAutoScan
               IF scanInterval.active
               THEN /\ timers' = clearInterval(timers, scanInterval)
                    /\ scanInterval' = NoInterval
                    /\ logs' = logOperation(logs, LogEntry("INFO", "Auto-scan disabled", <<>>))
               ELSE UNCHANGED <<scanInterval, timers, logs>>
       /\ response' = Response("auto-scan", 200, "none", <<>>)
       /\ UNCHANGED <<disk, lastScan, rulesFile, catIn, catOut, simIn, simOut, dnaIn, dnaOut, inflight>>

\* the timer callback; reachable: the fetch of /api/scan gets through to the
\* server.  stats.lastAutoScan is wall-clock time and is left out
performAutoScan(directory, reachable) ==
  \E started \in {logOperation(logs, LogEntry("INFO", "Auto-scan started for directory", directory))} :
  \E done \in {IF reachable THEN scanRequest(directory, lastScan, statsFile, started)
                ELSE ScanOutcome(lastScan, statsFile, started, NoResponse)} :
  LET result == done.response.body
  IN IF ~reachable
     THEN /\ logs' = logOperation(started, LogEntry("ERROR", "Auto-scan error", <<>>))
          /\ UNCHANGED <<disk, lastScan, rulesFile, statsFile, response, catIn, catOut, simIn, simOut, scanInterval, dnaIn, dnaOut, timers, inflight>>
     ELSE /\ lastScan' = done.lastScan
          /\ statsFile' = done.statsFile
          /\ logs' = IF done.response.status = 200
                     THEN logOperation(done.logs,
                            LogEntry("INFO", "Auto-scan completed",
                                     numberToString(result.totalFiles) \o <<" ">> \o numberToString(Len(result.duplicateGroups))))
                     ELSE logOperation(done.logs, LogEntry("ERROR", "Auto-scan failed", <<>>))
          /\ UNCHANGED <<disk, rulesFile, response, catIn, catOut, simIn, simOut, scanInterval, dnaIn, dnaOut, timers, inflight>>


(***************************************************************************)
(* App DNA: detectArchitecture.  A buffer is a sequence of bytes, 0..255;  *)
(* byte i of the code is element i + 1 of the sequence.                    *)
(***************************************************************************)
\* buffer[i]: undefined (here -1) past the end
byteAt(buffer, i) == IF i >= 0 /\ i < Len(buffer) THEN buffer[i + 1] ELSE -1

\* buffer.slice(start, end): both ends are clamped to the buffer
slice(buffer, start, end) ==
  LET a == Min(start, Len(buffer))
      b == Min(end, Len(buffer))
  IN IF b > a THEN SubSeq(buffer, a + 1, b) ELSE <<>>

\* a read of width bytes at offset throws ERR_OUT_OF_RANGE unless it fits
readThrows(buffer, offset, width) == offset + width > Len(buffer)

\* readUInt32LE: the value is kept as its low three bytes and its top byte,
\* for it can be as large as 2^32 - 1
readUInt32LE(buffer, offset) ==
  [low |-> buffer[offset + 1] + 256 * buffer[offset + 2] + 65536 * buffer[offset + 3],
   top |-> buffer[offset + 4]]

\* value < n, for a number n below 2^24
uint32Below(value, n) == value.top = 0 /\ value.low < n

readUInt16LE(buffer, offset) == buffer[offset + 1] + 256 * buffer[offset + 2]

\* the switch over the machine field
peMachine(machine) ==
  CASE machine = 332 -> "x86"
    [] machine = 34404 -> "x64"
    [] machine = 452 -> "ARM"
    [] machine = 43620 -> "ARM64"
    [] OTHER -> "Unknown PE"

\* the switch over byte 18 of an ELF file
elfMachine(archByte) ==
  CASE archByte = 3 -> "x86"
    [] archByte = 62 -> "x64"
    [] archByte = 40 -> "ARM"
    [] archByte = 183 -> "ARM64"
    [] OTHER -> "ELF Unknown"

\* what follows the PE block: ELF detection, Mach-O detection, 'Unknown'
afterPE(buffer) ==
  LET magicBytes == slice(buffer, 0, 4)
  IN IF magicBytes = <<127, 69, 76, 70>> THEN elfMachine(byteAt(buffer, 18))
     ELSE IF magicBytes = <<254, 237, 250, 206>> \/ magicBytes = <<206, 250, 237, 254>> THEN "Mach-O"
     ELSE "Unknown"

detectArchitecture(buffer) ==
  IF byteAt(buffer, 0) = 77 /\ byteAt(buffer, 1) = 90
  THEN IF readThrows(buffer, 60, 4) THEN "PE (corrupted)"
       ELSE LET value == readUInt32LE(buffer, 60)
            IN IF uint32Below(value, Len(buffer) - 4)
               THEN LET peOffset == value.low
                    IN IF slice(buffer, peOffset, peOffset + 4) = <<80, 69, 0, 0>>
                       THEN IF readThrows(buffer, peOffset + 4, 2) THEN "PE (corrupted)"
                            ELSE peMachine(readUInt16LE(buffer, peOffset + 4))
                       ELSE afterPE(buffer)
               ELSE afterPE(buffer)
  ELSE afterPE(buffer)


(***************************************************************************)
(* The calls under test of the pure functions.                             *)
(***************************************************************************)
NoCall == [called |-> FALSE]

Idle ==
  /\ catIn = NoCall /\ catOut = <<>>
  /\ simIn = NoCall /\ simOut = Score(0, 1)
  /\ dnaIn = NoCall /\ dnaOut = "none"

BlankSystem ==
  /\ disk = [dirOk |-> [d \in Dirs |-> TRUE], slot |-> [s \in Slots |-> NoFile], copies |-> {}]
  /\ lastScan = NoScan
  /\ rulesFile = NoRulesFile
  /\ statsFile = NoStats
  /\ logs = <<>>
  /\ response = NoResponse
  /\ scanInterval = NoInterval
  /\ timers = <<>>
  /\ inflight = NoRequests

(***************************************************************************)
(* The system: scans and similarity analyses of a tree in which files may  *)
(* disappear between requests.                                             *)
(***************************************************************************)
InitSlotOptions(s) ==
  CASE s = 1 -> { File(<<"a","p","p","1",".","e","x","e">>, Bytes1, Time1) }
    [] s = 2 -> { File(<<"a","p","p","2",".","e","x","e">>, Bytes1, Time1) }
    [] s = 3 -> { File(<<"G","a","m","e",".","S","H">>, Bytes3, Time2), File(<<"a","p","p","1","3",".","e","x","e">>, Bytes2, Time1) }

\* one option for every slot
InitSlotChoices ==
  {f \in [Slots -> UNION {InitSlotOptions(s) : s \in Slots}] : \A s \in Slots : f[s] \in InitSlotOptions(s)}

\* a rules file the operator saved earlier
SavedRules ==
  [present |-> TRUE, hasRules |-> TRUE,
   rules |-> << Rule("1", <<"T","o","o","l","s">>, << <<"A","P","P","2">> >>, <<>>, FALSE),
                Rule("2", <<"A","p","p","s">>, << <<"a","p","p">> >>, << <<"/","O","U","T","P","U","T","/">> >>, TRUE) >>]

Init ==
  /\ disk \in [dirOk : {[d \in Dirs |-> TRUE]}, slot : InitSlotChoices, copies : {{}}]
  /\ lastScan = NoScan
  /\ rulesFile = SavedRules
  /\ statsFile = NoStats
  /\ logs = <<>>
  /\ response = NoResponse
  /\ scanInterval = NoInterval
  /\ timers = <<>>
  /\ inflight = NoRequests
  /\ Idle

\* a file is deleted from outside the program
EnvRemove(s) ==
  /\ disk.slot[s].kind # "none"
  /\ disk' = [disk EXCEPT !.slot[s] = NoFile]
  /\ UNCHANGED <<lastScan, rulesFile, statsFile, logs, response, catIn, catOut, simIn, simOut, scanInterval, dnaIn, dnaOut, timers, inflight>>

ScanRequests == { <<"/","r">>, <<"\"","/","r","/","o","u","t","p","u","t","\"">>, <<"/","n","o","p","e">>, <<"/","f">> }

SimilarRequests == { <<"/","r">>, <<>> }

\* the requests the log shows as started
RequestTexts ==
  {"Starting scan of directory", "Starting similar files analysis for", "Smart suggestion",
   "Starting deletion of files", "Starting file organization", "Updated categorization rules",
   "Logs cleared by user", "Auto-scan scheduled", "Auto-scan disabled", "Auto-scan started for directory"}

RequestsLogged == Len(SelectSeq(logs, LAMBDA e : e.text \in RequestTexts))

Scan ==
  /\ RequestsLogged < MaxRequests
  /\ \E directory \in ScanRequests : ScanPOST(directory)

Similar ==
  /\ RequestsLogged < MaxRequests
  /\ \E directory \in SimilarRequests : SimilarPOST(directory)

Remove == \E s \in Slots : EnvRemove(s)

Next ==
  \/ Scan
  \/ Similar
  \/ Remove

Spec == Init /\ [][Next]_vars

(***************************************************************************)
(* The tree walk: one scan of every tree the file options can build.       *)
(***************************************************************************)
WalkFile == File(<<"a",".","e","x","e">>, Bytes1, Time1)

WalkSlotOptions(s) ==
  CASE s = 1 -> { NoFile, WalkFile, File(<<"c",".","S","h">>, Bytes3, Time1), File(<<"n",".","t","x","t">>, Bytes1, Time1),
                  [WalkFile EXCEPT !.statOk = FALSE], [WalkFile EXCEPT !.kind = "other"] }
    [] s = 2 -> { NoFile, WalkFile, File(<<"b",".","E","X","E">>, Bytes1, Time1), File(<<".","s","h">>, Bytes1, Time1),
                  [WalkFile EXCEPT !.readOk = FALSE], File(<<"c",".","S","h">>, Bytes2, Time1) }
    [] s = 3 -> { NoFile, WalkFile, File(<<"b",".","E","X","E">>, Bytes1, Time1), File(<<"n",".","t","x","t">>, Bytes1, Time1),
                  [WalkFile EXCEPT !.statOk = FALSE], [WalkFile EXCEPT !.readOk = FALSE] }

WalkSlotChoices ==
  {f \in [Slots -> UNION {WalkSlotOptions(s) : s \in Slots}] : \A s \in Slots : f[s] \in WalkSlotOptions(s)}

InitWalk ==
  /\ disk \in [dirOk : [Dirs -> BOOLEAN], slot : WalkSlotChoices, copies : {{}}]
  /\ lastScan = NoScan
  /\ rulesFile = NoRulesFile
  /\ statsFile = NoStats
  /\ logs = <<>>
  /\ response = NoResponse
  /\ scanInterval = NoInterval
  /\ timers = <<>>
  /\ inflight = NoRequests
  /\ Idle

DirectoryInputs == { <<"/","r">>, <<"\"","/","r","\"">>, <<"/","r","/","d">>, <<"/","r","/","o","u","t","p","u","t">>, <<"/","r","/","o","u","t","p","u","t","/","A","p","p","s">>, <<"/","n","o","p","e">>, <<"/","f">>, <<>>, <<"'">> }

WalkScan ==
  /\ response = NoResponse
  /\ \E directory \in DirectoryInputs : ScanPOST(directory)

NextWalk == WalkScan

SpecWalk == InitWalk /\ [][NextWalk]_vars

(***************************************************************************)
(* categorizeFiles on every file list and rule list of the pools.          *)
(***************************************************************************)
MaxRules == 2

FileInfo(dir, name, bytes) ==
  [path |-> join(dir, name), name |-> name, size |-> Len(bytes), hash |-> sha256(bytes)]

CatFiles ==
  << FileInfo(<<"/","r">>, <<"S","t","u","d","i","o",".","e","x","e">>, Bytes1),
     FileInfo(<<"/","r","/","G","a","m","e","s">>, <<"x",".","s","h">>, Bytes2),
     FileInfo(<<"/","r">>, <<"n",".","a","p","k">>, Bytes3) >>

CatFileLists == { <<>>, CatFiles, SubSeq(CatFiles, 2, 3) }

CatCategories == { <<"D","e","v">>, <<"F","u","n">>, Uncategorized }

CatKeywords == { <<>>, << <<"S","T">>, <<"x">> >> }

CatPatterns == { <<>>, << <<"/","g","a","m","e","s">> >> }

CatRules ==
  { Rule("1", c, k, p, e) : c \in CatCategories, k \in CatKeywords, p \in CatPatterns, e \in BOOLEAN }

CatRuleLists == UNION { [1..n -> CatRules] : n \in 0..MaxRules }

InitCat ==
  /\ BlankSystem
  /\ catIn \in [called : {TRUE}, files : CatFileLists, rules : CatRuleLists, done : {FALSE}]
  /\ catOut = <<>>
  /\ simIn = NoCall /\ simOut = Score(0, 1)
  /\ dnaIn = NoCall /\ dnaOut = "none"

Categorize ==
  /\ catIn.called /\ ~catIn.done
  /\ catOut' = categorizeFiles(catIn.files, catIn.rules)
  /\ catIn' = [catIn EXCEPT !.done = TRUE]
  /\ UNCHANGED <<disk, lastScan, rulesFile, statsFile, logs, response, simIn, simOut, scanInterval, dnaIn, dnaOut, timers, inflight>>

NextCat == Categorize

SpecCat == InitCat /\ [][NextCat]_vars

(***************************************************************************)
(* calculateSimilarity on every pair of short strings.                     *)
(***************************************************************************)
SimChars == {"a", "b"}

SimStrings == UNION { [1..n -> SimChars] : n \in 0..MaxSimLen }

InitSim ==
  /\ BlankSystem
  /\ catIn = NoCall /\ catOut = <<>>
  /\ simIn \in [called : {TRUE}, str1 : SimStrings, str2 : SimStrings, done : {FALSE}]
  /\ simOut = Score(0, 1)
  /\ dnaIn = NoCall /\ dnaOut = "none"

Similarity ==
  /\ simIn.called /\ ~simIn.done
  /\ simOut' = calculateSimilarity(simIn.str1, simIn.str2)
  /\ simIn' = [simIn EXCEPT !.done = TRUE]
  /\ UNCHANGED <<disk, lastScan, rulesFile, statsFile, logs, response, catIn, catOut, scanInterval, dnaIn, dnaOut, timers, inflight>>

NextSim == Similarity

SpecSim == InitSim /\ [][NextSim]_vars

(***************************************************************************)
(* Suggestions for snapshots of many files: groups of versions of one      *)
(* application, and files the other two detectors pick up.                 *)
(***************************************************************************)
\* version j of application i: the name is a letter, the version number and
\* the extension
VersionFile(i, j) ==
  FileInfo(<<"/","r">>, <<Lower[i]>> \o numberToString(j) \o <<".","e","x","e">>,
           [k \in 1..(((i + j) % 3) + 1) |-> (10 * i) + j])

\* how many versions application i has under a shape
VersionsOf(i, shape) == 2 + ((i * shape) % 3)

RECURSIVE VersionFiles(_, _, _)
VersionFiles(n, shape, i) ==
  IF i > n THEN <<>>
  ELSE [j \in 1..VersionsOf(i, shape) |-> VersionFile(i, j)] \o VersionFiles(n, shape, i + 1)

ExtraFileLists ==
  { <<>>,
    << FileInfo(<<"/","r">>, <<"S","e","t","u","p","_","O","l","d",".","e","x","e">>, <<1, 2>>) >>,
    << FileInfo(<<"/","r">>, <<"k","m","p","l","a","y","e","r",".","e","x","e">>, <<3>>), FileInfo(<<"/","r">>, <<"V","L","C",".","e","x","e">>, <<4>>) >>,
    << FileInfo(<<"/","r">>, <<"F","i","r","e","f","o","x",".","e","x","e">>, <<5>>), FileInfo(<<"/","r">>, <<"o","p","e","r","a","-","s","e","t","u","p",".","e","x","e">>, <<6, 6>>),
       FileInfo(<<"/","r">>, <<"E","d","g","e",".","e","x","e">>, <<7>>), FileInfo(<<"/","r">>, <<"7","z","i","p",".","e","x","e">>, <<8>>) >>,
    << FileInfo(<<"/","r">>, <<"n","o","t","e","p","a","d",".","e","x","e">>, <<9>>), FileInfo(<<"/","r">>, <<"N","o","t","e","p","a","d","+","+",".","e","x","e">>, <<9, 9>>),
       FileInfo(<<"/","r">>, <<"w","i","n","r","a","r",".","e","x","e">>, <<8>>), FileInfo(<<"/","r">>, <<"W","i","n","Z","i","p","_","t","r","i","a","l",".","e","x","e">>, <<8, 8>>) >>,
    << FileInfo(<<"/","r">>, <<"M","y","-","A","p","p","_","1",".","e","x","e">>, <<1>>), FileInfo(<<"/","r">>, <<"m","y"," "," ","a","p","p"," ","2","2",".","E","X","E">>, <<2, 2, 2>>),
       FileInfo(<<"/","r">>, <<"M","Y",".","A","P","P",".","e","x","e">>, <<3, 3, 3>>), FileInfo(<<"/","r">>, <<"M","y","a","p","p",".","e","x","e">>, <<4, 4>>) >> }

SuggestShapes == 0..2

\* the snapshot a scan stores for a list of files when the saved rule list
\* is empty
SnapshotOf(files) == ScanResult(files, <<>>)

InitSuggest ==
  /\ disk = [dirOk |-> [d \in Dirs |-> TRUE], slot |-> [s \in Slots |-> NoFile], copies |-> {}]
  /\ \E n \in 0..MaxGroups, shape \in SuggestShapes, extra \in ExtraFileLists :
       \E files \in {extra \o VersionFiles(n, shape, 1)} : lastScan = SnapshotOf(files)
  /\ rulesFile = NoRulesFile
  /\ statsFile = NoStats
  /\ logs = <<>>
  /\ response = NoResponse
  /\ scanInterval = NoInterval
  /\ timers = <<>>
  /\ inflight = NoRequests
  /\ Idle

Suggest ==
  /\ response = NoResponse
  /\ SuggestGET

NextSuggest == Suggest

SpecSuggest == InitSuggest /\ [][NextSuggest]_vars

(***************************************************************************)
(* The operations around a scan: suggestions and the actions taken on      *)
(* them, on the snapshots scans store.                                     *)
(***************************************************************************)
SuggestionIds == { <<>>, <<"s","1">> }

SuggestionActions == { <<>>, <<"a","p","p","l","i","e","d">>, <<"d","i","s","m","i","s","s","e","d">> }

GetSuggestions == SuggestGET

ActOnSuggestion ==
  /\ RequestsLogged < MaxRequests
  /\ \E suggestionId \in SuggestionIds, action \in SuggestionActions : SuggestPOST(suggestionId, action)

MissingPath == <<"/","r","/","g","o","n","e",".","e","x","e">>

\* the files fields of the delete requests sent for a disk
DeleteFields(dk) ==
  LET p(s) == SlotPath(dk, s)
  IN { NoFilesField, NotAnArray(p(1)), PathArray(<<>>), PathArray(<<p(1)>>),
       PathArray(<<p(2), p(2)>>), PathArray(<<MissingPath, p(3)>>),
       PathArray(<<DirPath("d"), p(1), p(2)>>), PathArray(<<p(3), p(1)>>) }

\* the slots whose directory the process may not write to during a request
LockedSets == { {}, {1} }

Delete ==
  /\ RequestsLogged < MaxRequests
  /\ \E files \in DeleteFields(disk), locked \in LockedSets : DeletePOST(files, locked)

NextOps ==
  \/ Scan
  \/ Remove
  \/ GetSuggestions
  \/ ActOnSuggestion

SpecOps == Init /\ [][NextOps]_vars

\* scans and delete requests, on a tree in which files may also disappear
\* on their own
NextDelete ==
  \/ Scan
  \/ Remove
  \/ Delete

SpecDelete == Init /\ [][NextDelete]_vars

(***************************************************************************)
(* The organizer: a scan, then the copies of the files it listed, run from *)
(* inside the scanned tree or from outside it.                             *)
(***************************************************************************)
OrganizeSlotOptions(s) ==
  CASE s = 1 -> { File(<<"a","p","p","1",".","e","x","e">>, Bytes1, Time1) }
    [] s = 2 -> { File(<<"a","p","p","2",".","e","x","e">>, Bytes1, Time1), [File(<<"a","p","p","2",".","e","x","e">>, Bytes1, Time1) EXCEPT !.readOk = FALSE] }
    [] s = 3 -> { NoFile, File(<<"a","p","p","1",".","e","x","e">>, Bytes2, Time1), File(<<"G","a","m","e",".","S","H">>, Bytes3, Time2) }

OrganizeSlotChoices ==
  {f \in [Slots -> UNION {OrganizeSlotOptions(s) : s \in Slots}] : \A s \in Slots : f[s] \in OrganizeSlotOptions(s)}

InitOrganize ==
  /\ disk \in [dirOk : {[d \in Dirs |-> TRUE]}, slot : OrganizeSlotChoices, copies : {{}}]
  /\ lastScan = NoScan
  /\ rulesFile \in {NoRulesFile, SavedRules}
  /\ statsFile = NoStats
  /\ logs = <<>>
  /\ response = NoResponse
  /\ scanInterval = NoInterval
  /\ timers = <<>>
  /\ inflight = NoRequests
  /\ Idle

\* the directories the application may be running in
WorkingDirectories == { <<"/","r">>, <<"/","w">> }

OrganizeRequests == { <<>>, <<"/","r">> }

\* a scan made before the organizer has put files of its own into the tree
ScanFirst ==
  /\ disk.copies = {}
  /\ Scan

Organize ==
  /\ RequestsLogged < MaxRequests
  /\ \E directory \in OrganizeRequests, cwd \in WorkingDirectories : OrganizePOST(directory, cwd)

NextOrganize ==
  \/ ScanFirst
  \/ Organize
  \/ Remove

SpecOrganize == InitOrganize /\ [][NextOrganize]_vars

(***************************************************************************)
(* The log sink: every operation that writes to data/logs.json, one at a   *)
(* time, on a log that is empty, nearly full or full.                      *)
(***************************************************************************)
\* the n entries earlier requests have left in the log, oldest first
earlierEntries(n) == [k \in 1..n |-> LogEntry("INFO", "Earlier entry", numberToString(k))]

\* how many entries the log holds at the start
LogFills == { 0, LOG_LIMIT - 3, LOG_LIMIT }

InitLog ==
  /\ disk \in [dirOk : {[d \in Dirs |-> TRUE]}, slot : InitSlotChoices, copies : {{}}]
  /\ lastScan = NoScan
  /\ rulesFile = SavedRules
  /\ statsFile = NoStats
  /\ \E n \in LogFills : logs = earlierEntries(n)
  /\ response = NoResponse
  /\ scanInterval = NoInterval
  /\ timers = <<>>
  /\ inflight = NoRequests
  /\ Idle

LogScan ==
  /\ RequestsLogged < MaxRequests
  /\ \E directory \in { <<"/","r">>, <<"/","n","o","p","e">> } : ScanPOST(directory)

LogDelete ==
  /\ RequestsLogged < MaxRequests
  /\ \E files \in { PathArray(<<SlotPath(disk, 1), MissingPath>>), NoFilesField } : DeletePOST(files, {})

LogRules ==
  /\ RequestsLogged < MaxRequests
  /\ \E rules \in { RuleArray(<<>>), NoRulesField } : RulesPOST(rules)

LogOrganize ==
  /\ RequestsLogged < MaxRequests
  /\ OrganizePOST(<<"/","r">>, <<"/","w">>)

LogSimilar ==
  /\ RequestsLogged < MaxRequests
  /\ SimilarPOST(<<"/","r">>)

LogSuggestion ==
  /\ RequestsLogged < MaxRequests
  /\ SuggestPOST(<<"s","1">>, <<"a","p","p","l","i","e","d">>)

LogAutoScan ==
  /\ RequestsLogged < MaxRequests
  /\ \E enabled \in BOOLEAN : AutoScanPOST(enabled, 0, <<"/","r">>)

LogTimer ==
  /\ RequestsLogged < MaxRequests
  /\ scanInterval.active
  /\ \E reachable \in BOOLEAN : performAutoScan(scanInterval.directory, reachable)

\* the log is cleared once: a cleared log starts with the entry that says so
LogClear ==
  /\ RequestsLogged < MaxRequests
  /\ IF Len(logs) = 0 THEN TRUE ELSE logs[1].text # "Logs cleared by user"
  /\ ClearLogsPOST

NextLog ==
  \/ LogScan
  \/ LogDelete
  \/ LogRules
  \/ LogOrganize
  \/ LogSimilar
  \/ LogSuggestion
  \/ LogAutoScan
  \/ LogTimer
  \/ LogClear

SpecLog == InitLog /\ [][NextLog]_vars


(***************************************************************************)
(* The rules: the operator saves rule lists between scans.                 *)
(***************************************************************************)
ToolsRule == Rule("7", <<"T","o","o","l","s">>, << <<"a","p","p">> >>, <<>>, TRUE)

AppsRule == Rule("8", <<"A","p","p","s">>, << <<"A","P","P","1">>, <<"g","a","m","e">> >>, << <<"/","o","u","t","p","u","t","/">> >>, TRUE)

\* the payloads of the save requests: rule lists in which the order of the
\* rules decides, the empty list, and bodies without a rules array
RulePayloads ==
  { RuleArray(<<ToolsRule, AppsRule>>), RuleArray(<<AppsRule, ToolsRule>>), RuleArray(<<>>),
    NoRulesField, RulesNotAnArray(<<"T","o","o","l","s">>) }

ScansLogged == Len(SelectSeq(logs, LAMBDA e : e.text = "Starting scan of directory"))

SavesLogged == Len(SelectSeq(logs, LAMBDA e : e.text = "Updated categorization rules"))

InitRules ==
  /\ disk \in [dirOk : {[d \in Dirs |-> TRUE]}, slot : InitSlotChoices, copies : {{}}]
  /\ lastScan = NoScan
  /\ rulesFile \in {NoRulesFile, SavedRules}
  /\ statsFile = NoStats
  /\ logs = <<>>
  /\ response = NoResponse
  /\ scanInterval = NoInterval
  /\ timers = <<>>
  /\ inflight = NoRequests
  /\ Idle

SaveRules ==
  /\ SavesLogged < MaxSaves
  /\ \E rules \in RulePayloads : RulesPOST(rules)

ScanWithRules ==
  /\ ScansLogged < MaxRequests
  /\ \E directory \in { <<"/","r">>, <<"/","r","/","o","u","t","p","u","t">>, <<"/","n","o","p","e">> } : ScanPOST(directory)

NextRules ==
  \/ SaveRules
  \/ ScanWithRules

SpecRules == InitRules /\ [][NextRules]_vars


(***************************************************************************)
(* The rules as the operator sees them: fetches of the rule list among the *)
(* saves and the scans.                                                    *)
(***************************************************************************)
NextView ==
  \/ SaveRules
  \/ ScanWithRules
  \/ RulesGET

SpecView == InitRules /\ [][NextView]_vars


(***************************************************************************)
(* Request bodies: rule saves and delete requests whose required array is  *)
(* there, missing, or something that is no array.                          *)
(***************************************************************************)
NextInput ==
  \/ SaveRules
  \/ Delete
  \/ Remove

SpecInput == InitRules /\ [][NextInput]_vars


(***************************************************************************)
(* detectArchitecture on files with and without the MZ magic, whole and    *)
(* cut short, whose PE offset points inside the file, at its end or far    *)
(* past it.                                                                *)
(***************************************************************************)
DnaLengths == { 2, 63, 64, 72 }

\* the low three bytes and the top byte of the value written at byte 60
DnaOffsets == { 0, 60, 64, 66, 67, 68, 70, 72, 300 }

DnaTopBytes == { 0, 255 }

DnaMachines == { 332, 34404, 7 }

DnaMagics == { <<77, 90>>, <<127, 69, 76, 70>>, <<90, 77>> }

\* a file of len bytes: the magic, the PE offset at byte 60, and, if signed,
\* 'PE\0\0' and the machine field where the offset points; what does not
\* fit into the file is cut off
buildFile(len, magic, offset, top, signed, machine) ==
  [i \in 1..len |->
     LET at == i - 1
     IN IF signed /\ top = 0 /\ at >= offset /\ at < offset + 6
        THEN << 80, 69, 0, 0, machine % 256, machine \div 256 >>[at - offset + 1]
        ELSE IF at >= 60 /\ at < 64
        THEN << offset % 256, (offset \div 256) % 256, offset \div 65536, top >>[at - 59]
        ELSE IF at < Len(magic) THEN magic[at + 1]
        ELSE 0]

DnaBuffers ==
  { buildFile(len, magic, offset, top, signed, machine) :
      len \in DnaLengths, magic \in DnaMagics, offset \in DnaOffsets, top \in DnaTopBytes,
      signed \in BOOLEAN, machine \in DnaMachines }

InitDna ==
  /\ BlankSystem
  /\ catIn = NoCall /\ catOut = <<>>
  /\ simIn = NoCall /\ simOut = Score(0, 1)
  /\ dnaIn \in [called : {TRUE}, buffer : DnaBuffers, done : {FALSE}]
  /\ dnaOut = "none"

DetectArchitecture ==
  /\ dnaIn.called /\ ~dnaIn.done
  /\ dnaOut' = detectArchitecture(dnaIn.buffer)
  /\ dnaIn' = [dnaIn EXCEPT !.done = TRUE]
  /\ UNCHANGED <<disk, lastScan, rulesFile, statsFile, logs, response, catIn, catOut, simIn, simOut, scanInterval, timers, inflight>>

NextDna == DetectArchitecture

SpecDna == InitDna /\ [][NextDna]_vars


(***************************************************************************)
(* Requests in flight together.  A handler runs until it awaits; what it   *)
(* does between two awaits is one step, and steps of different requests    *)
(* interleave.  logOperation and the stats updates await the read of the   *)
(* data file and then the write of it, so each is two steps: the read      *)
(* leaves the file's content with the request (held), the write puts back  *)
(* what the request made of it.  A request is the sequence of steps it has *)
(* still to take (todo); the walk of the tree and the stat and unlink of   *)
(* one path are taken as one step each.                                    *)
(***************************************************************************)
Step(op, entry, arg) == [op |-> op, entry |-> entry, arg |-> arg]

NoEntry == LogEntry("INFO", "none", <<>>)

\* await logOperation(message, level)
LogStep(level, text, arg) == Step("log", LogEntry(level, text, arg), <<>>)

Request(todo) == [todo |-> todo, held |-> <<>>, freed |-> 0, deleted |-> 0, wrote |-> <<>>, status |-> 0]

\* POST /api/scan with a directory
ScanRequest(directory) ==
  Request(<< LogStep("INFO", "Starting scan of directory", cleanPath(directory)),
             Step("walk", NoEntry, cleanPath(directory)) >>)

\* POST /api/delete with an array of paths
DeleteRequest(paths) ==
  Request(<< LogStep("INFO", "Starting deletion of files", numberToString(Len(paths))) >>
          \o [i \in 1..Len(paths) |-> Step("unlink", NoEntry, paths[i])]
          \o << Step("tally", NoEntry, <<>>) >>)

\* POST /api/auto-scan with a directory
ConfigRequest(enabled, interval, directory) ==
  Request(<< Step("stats", NoEntry, [kind |-> "config", enabled |-> enabled, interval |-> interval, saved |-> 0]),
             Step("timer", NoEntry, [enabled |-> enabled, interval |-> interval, directory |-> directory]) >>)

Requests == DOMAIN inflight

Current(p) == Head(inflight[p].todo)

Ready(p, op) == Len(inflight[p].todo) > 0 /\ Current(p).op = op

Finished(p) == Len(inflight[p].todo) = 0

\* the request takes its current step and goes on with the steps more
\* followed by the rest of what it had to do
Proceed(p, more, changes) ==
  inflight' = [inflight EXCEPT ![p] = [changes EXCEPT !.todo = more \o Tail(inflight[p].todo)]]

\* logOperation: existingLogs = await fs.readFile(logPath)
ReadLog(p) ==
  /\ Ready(p, "log")
  /\ Proceed(p, << Step("logw", Current(p).entry, <<>>) >>, [inflight[p] EXCEPT !.held = logs])
  /\ UNCHANGED <<disk, lastScan, rulesFile, statsFile, logs, response, catIn, catOut, simIn, simOut, scanInterval, dnaIn, dnaOut, timers>>

\* logOperation: logs.push(logEntry), the cap, await fs.writeFile(logPath)
WriteLog(p) ==
  /\ Ready(p, "logw")
  /\ logs' = logOperation(inflight[p].held, Current(p).entry)
  /\ Proceed(p, <<>>, [inflight[p] EXCEPT !.wrote = Append(@, Current(p).entry)])
  /\ UNCHANGED <<disk, lastScan, rulesFile, statsFile, response, catIn, catOut, simIn, simOut, scanInterval, dnaIn, dnaOut, timers>>

\* the scan handler from scanDirectory to categorizeFiles
Walk(p) ==
  /\ Ready(p, "walk")
  /\ LET scan == scanDirectory(disk, Current(p).arg)
         result == ScanResult(scan.files, loadRules(rulesFile))
     IN IF scan.ok
        THEN Proceed(p,
               << LogStep("INFO", "Found application files", numberToString(Len(scan.files))),
                  LogStep("INFO", "Detected duplicate groups", numberToString(Len(result.duplicateGroups))),
                  LogStep("INFO", "Categorized files into categories", numberToString(Len(result.categorizedFiles))),
                  Step("save", NoEntry, result),
                  Step("stats", NoEntry, [kind |-> "scan", enabled |-> FALSE, interval |-> 0, saved |-> 0]),
                  LogStep("INFO", "Scan completed", <<>>),
                  Step("reply", NoEntry, Response("scan", 200, "none", result)) >>,
               inflight[p])
        ELSE Proceed(p,
               << LogStep("ERROR", "Scan failed", Current(p).arg),
                  Step("reply", NoEntry, Response("scan", 400, scan.error, <<>>)) >>,
               inflight[p])
  /\ UNCHANGED <<disk, lastScan, rulesFile, statsFile, logs, response, catIn, catOut, simIn, simOut, scanInterval, dnaIn, dnaOut, timers>>

\* await fs.writeFile(last-scan.json)
Save(p) ==
  /\ Ready(p, "save")
  /\ lastScan' = writeLastScan(lastScan, Current(p).arg)
  /\ Proceed(p, <<>>, inflight[p])
  /\ UNCHANGED <<disk, rulesFile, statsFile, logs, response, catIn, catOut, simIn, simOut, scanInterval, dnaIn, dnaOut, timers>>

\* existingStats = await fs.readFile(statsPath)
ReadStats(p) ==
  /\ Ready(p, "stats")
  /\ Proceed(p, << Step("statsw", NoEntry, Current(p).arg) >>, [inflight[p] EXCEPT !.held = statsFile])
  /\ UNCHANGED <<disk, lastScan, rulesFile, statsFile, logs, response, catIn, catOut, simIn, simOut, scanInterval, dnaIn, dnaOut, timers>>

\* what the request makes of the statistics it read
changedStats(stats, change) ==
  IF change.kind = "scan" THEN updateScanStats(stats)
  ELSE IF change.kind = "storage" THEN updateStorageStats(stats, change.saved)
  ELSE autoScanStats(stats, change.enabled, change.interval)

\* await fs.writeFile(statsPath, JSON.stringify(stats))
WriteStats(p) ==
  /\ Ready(p, "statsw")
  /\ statsFile' = changedStats(inflight[p].held, Current(p).arg)
  /\ Proceed(p, <<>>, inflight[p])
  /\ UNCHANGED <<disk, lastScan, rulesFile, logs, response, catIn, catOut, simIn, simOut, scanInterval, dnaIn, dnaOut, timers>>

\* one turn of the delete loop: fs.stat, fs.unlink, then the log entry
Unlink(p) ==
  /\ Ready(p, "unlink")
  /\ LET filePath == Current(p).arg
         s == unlinked(disk, filePath, {})
     IN IF s # 0
        THEN /\ disk' = [disk EXCEPT !.slot[s] = NoFile]
             /\ Proceed(p, << LogStep("INFO", "Deleted file", filePath) >>,
                  [inflight[p] EXCEPT !.deleted = @ + 1, !.freed = @ + SizeOf(disk.slot[s])])
        ELSE /\ disk' = disk
             /\ Proceed(p, << LogStep("ERROR", "Failed to delete", filePath) >>, inflight[p])
  /\ UNCHANGED <<lastScan, rulesFile, statsFile, logs, response, catIn, catOut, simIn, simOut, scanInterval, dnaIn, dnaOut, timers>>

\* after the loop: updateStorageStats if anything was freed, the closing
\* log entry and the response
Tally(p) ==
  /\ Ready(p, "tally")
  /\ Proceed(p,
       (IF inflight[p].freed > 0
        THEN << Step("stats", NoEntry, [kind |-> "storage", enabled |-> FALSE, interval |-> 0, saved |-> inflight[p].freed]) >>
        ELSE <<>>)
       \o << LogStep("INFO", "Deletion completed", numberToString(inflight[p].deleted)),
             Step("reply", NoEntry, Response("delete", 200, "none", <<>>)) >>,
       inflight[p])
  /\ UNCHANGED <<disk, lastScan, rulesFile, statsFile, logs, response, catIn, catOut, simIn, simOut, scanInterval, dnaIn, dnaOut, timers>>

\* startAutoScan or stopAutoScan, neither of which awaits: the timer is set
\* or cleared, the log write is started and not waited for, the response
\* is returned
SetTimer(p) ==
  /\ Ready(p, "timer")
  /\ LET config == Current(p).arg
     IN IF config.enabled
        THEN /\ timers' = startAutoScan(timers, scanInterval, Timer(config.directory, orElse(config.interval, 24)))
             /\ scanInterval' = [active |-> TRUE, directory |-> config.directory, interval |-> orElse(config.interval, 24)]
             /\ Proceed(p, << LogStep("INFO", "Auto-scan scheduled", numberToString(orElse(config.interval, 24)) \o <<" ">> \o config.directory) >>,
                  [inflight[p] EXCEPT !.status = 200])
        ELSE IF scanInterval.active
        THEN /\ timers' = clearInterval(timers, scanInterval)
             /\ scanInterval' = NoInterval
             /\ Proceed(p, << LogStep("INFO", "Auto-scan disabled", <<>>) >>, [inflight[p] EXCEPT !.status = 200])
        ELSE /\ UNCHANGED <<timers, scanInterval>>
             /\ Proceed(p, <<>>, [inflight[p] EXCEPT !.status = 200])
  /\ response' = Response("auto-scan", 200, "none", <<>>)
  /\ UNCHANGED <<disk, lastScan, rulesFile, statsFile, logs, catIn, catOut, simIn, simOut, dnaIn, dnaOut>>

\* return NextResponse.json(...)
Reply(p) ==
  /\ Ready(p, "reply")
  /\ response' = Current(p).arg
  /\ Proceed(p, <<>>, [inflight[p] EXCEPT !.status = Current(p).arg.status])
  /\ UNCHANGED <<disk, lastScan, rulesFile, statsFile, logs, catIn, catOut, simIn, simOut, scanInterval, dnaIn, dnaOut, timers>>

\* the requests that arrive: a scan, a delete of a file that is there or of a
\* path that names nothing and a file that is there, and an auto-scan
\* configuration
RaceDeletes ==
  { << <<"/","r","/","a","p","p","1",".","e","x","e">> >>,
    << <<"/","r","/","n","o","p","e">>, <<"/","r","/","d","/","a","p","p","2",".","e","x","e">> >> }

Arrivals ==
  { [scan |-> ScanRequest(<<"/","r">>), delete |-> DeleteRequest(paths)] : paths \in RaceDeletes }
  \cup { [scan |-> ScanRequest(<<"/","r">>), config |-> ConfigRequest(enabled, 0, <<"/","r">>)] : enabled \in BOOLEAN }
  \cup { [delete |-> DeleteRequest(paths), config |-> ConfigRequest(TRUE, 0, <<"/","r">>)] : paths \in RaceDeletes }

\* two requests have arrived together
InitRace ==
  /\ disk \in [dirOk : {[d \in Dirs |-> TRUE]}, slot : InitSlotChoices, copies : {{}}]
  /\ lastScan = NoScan
  /\ rulesFile = SavedRules
  /\ statsFile = NoStats
  /\ logs = <<>>
  /\ response = NoResponse
  /\ scanInterval = NoInterval
  /\ timers = <<>>
  /\ Idle
  /\ inflight \in Arrivals

NextRace ==
  \/ \E p \in Requests : ReadLog(p)
  \/ \E p \in Requests : WriteLog(p)
  \/ \E p \in Requests : Walk(p)
  \/ \E p \in Requests : Save(p)
  \/ \E p \in Requests : ReadStats(p)
  \/ \E p \in Requests : WriteStats(p)
  \/ \E p \in Requests : Unlink(p)
  \/ \E p \in Requests : Tally(p)
  \/ \E p \in Requests : SetTimer(p)
  \/ \E p \in Requests : Reply(p)

SpecRace == InitRace /\ [][NextRace]_vars


(***************************************************************************)
(* Auto-scan: configuration requests, updates of the statistics and the    *)
(* callbacks of the timers the runtime holds.                              *)
(***************************************************************************)
MaxTicks == 1

ConfigTexts == {"Auto-scan scheduled", "Auto-scan disabled"}

ConfigsLogged == Len(SelectSeq(logs, LAMBDA e : e.text \in ConfigTexts))

TicksLogged == Len(SelectSeq(logs, LAMBDA e : e.text = "Auto-scan started for directory"))

\* interval 0 stands for a body without an interval, the empty directory for
\* a body without a directory
ConfigIntervals == {0, 12}

ConfigDirectories == { <<>>, <<"/","r">>, <<"/","r","/","o","u","t","p","u","t">> }

StatsUpdates == { [autoScanEnabled |-> TRUE] }

Configure ==
  /\ ConfigsLogged < MaxRequests
  /\ \E enabled \in BOOLEAN, interval \in ConfigIntervals, directory \in ConfigDirectories :
       AutoScanPOST(enabled, interval, directory)

\* a timer of the runtime fires
TimerFires ==
  /\ TicksLogged < MaxTicks
  /\ \E i \in 1..Len(timers), reachable \in BOOLEAN : performAutoScan(timers[i].directory, reachable)

NextTimer ==
  \/ Configure
  \/ \E updates \in StatsUpdates : StatsPOST(updates)
  \/ TimerFires

\* no timer is set when the server starts
InitTimer ==
  /\ InitRules
  /\ rulesFile = SavedRules

SpecTimer == InitTimer /\ [][NextTimer]_vars


(***************************************************************************)
(* Deletions between scans: the suggestions are asked for after files the  *)
(* snapshot lists have been deleted.                                       *)
(***************************************************************************)
NextStale ==
  \/ Scan
  \/ Delete
  \/ SuggestGET

SpecStale == Init /\ [][NextStale]_vars


(***************************************************************************)
(* What the claims speak of, stated from the tree and not from the walk.   *)
(***************************************************************************)
\* the directories on the way from the root of the tree to d, d included
Ancestors(d) ==
  CASE d = "r" -> {"r"}
    [] d = "d" -> {"r", "d"}
    [] d = "e" -> {"r", "e"}
    [] d = "g" -> {"r", "e", "g"}

\* the slots in the order a depth-first walk of the whole tree meets them
WalkOrder == <<2, 1, 3>>

\* the extensions the specification lists
ListedExtensions ==
  { <<".","e","x","e">>, <<".","m","s","i">>, <<".","a","p","p","x">>, <<".","a","p","p">>, <<".","d","m","g">>, <<".","p","k","g">>, <<".","d","e","b">>, <<".","r","p","m">>, <<".","s","n","a","p">>, <<".","s","h">>, <<".","a","p","k">> }

\* the name is a non-empty stem followed by a listed extension, in any case
HasListedExtension(name) ==
  \E e \in ListedExtensions : Len(name) > Len(e) /\ endsWith(toLowerCase(name), e)

\* slot s lies in the subtree of directory root
Under(s, root) == root \in Ancestors(SlotDir(s))

\* every directory from root down to the one holding slot s can be read
Reachable(dk, s, root) ==
  /\ Under(s, root)
  /\ \A x \in Ancestors(SlotDir(s)) : root \in Ancestors(x) => dk.dirOk[x]

\* slot s holds a regular file that can be stat'ed and read
Healthy(dk, s) ==
  /\ dk.slot[s].kind = "file"
  /\ dk.slot[s].statOk
  /\ dk.slot[s].readOk

RecordOf(dk, s) ==
  [path |-> SlotPath(dk, s), name |-> dk.slot[s].name,
   size |-> Len(dk.slot[s].bytes), hash |-> sha256(dk.slot[s].bytes)]

\* the records a scan of directory root owes, in discovery order
Expected(dk, root) ==
  LET ok(s) == Reachable(dk, s, root) /\ Healthy(dk, s) /\ HasListedExtension(dk.slot[s].name)
      order == SelectSeq(WalkOrder, ok)
  IN [i \in 1..Len(order) |-> RecordOf(dk, order[i])]

\* the records of a categorized result, without their category
Uncat(f) == [path |-> f.path, name |-> f.name, size |-> f.size, hash |-> f.hash]

CategorizedRecords(categorized) ==
  UNION { { Uncat(categorized[k].files[i]) : i \in 1..Len(categorized[k].files) } : k \in 1..Len(categorized) }

GroupedRecords(groups) ==
  UNION { Range(groups[k].files) : k \in 1..Len(groups) }

\* the last request was a scan that succeeded
ScanSucceeded == response.op = "scan" /\ response.status = 200

\* the directory that scan was asked to walk, as the log names it
ScannedPath == logs[Len(logs) - 4].arg

IsDirPath(p) == \E d \in Dirs : DirPath(d) = p

DirOf(p) == CHOOSE d \in Dirs : DirPath(d) = p

(***************************************************************************)
(* C1: every duplicate group a scan returns has at least two members, all  *)
(* members carry the group's digest, and every member's size is the size   *)
(* the group records.                                                      *)
(***************************************************************************)
C1_GroupsWellFormed ==
  ScanSucceeded =>
    \A k \in 1..Len(response.body.duplicateGroups) :
      LET g == response.body.duplicateGroups[k]
      IN /\ Len(g.files) >= 2
         /\ \A i \in 1..Len(g.files) : g.files[i].hash = g.hash /\ g.files[i].size = g.size

\* a scan returned a duplicate group while another file of the same size and
\* a different digest was scanned too
C1_Witness ==
  /\ ScanSucceeded
  /\ Len(response.body.duplicateGroups) >= 1
  /\ response.body.totalFiles > Len(response.body.duplicateGroups[1].files)

(***************************************************************************)
(* C2: duplicate grouping is complete and exact: a digest held by two or   *)
(* more scanned files has exactly one group, holding all the files of that *)
(* digest in discovery order; a digest held by one file has no group.      *)
(***************************************************************************)
C2_GroupingExact ==
  ScanSucceeded =>
    LET files  == Expected(disk, DirOf(ScannedPath))
        groups == response.body.duplicateGroups
        of(h)  == SelectSeq(files, LAMBDA f : f.hash = h)
    IN /\ response.body.totalFiles = Len(files)
       /\ \A k \in 1..Len(groups) : \E i \in 1..Len(files) : files[i].hash = groups[k].hash
       /\ \A i \in 1..Len(files) :
            LET h == files[i].hash
                at == { k \in 1..Len(groups) : groups[k].hash = h }
            IN IF Len(of(h)) >= 2
               THEN Cardinality(at) = 1 /\ \A k \in at : groups[k].files = of(h)
               ELSE at = {}

\* two byte-identical files and a third, different one: three files, one
\* group of two
C2_Witness ==
  /\ ScanSucceeded
  /\ response.body.totalFiles = 3
  /\ Len(response.body.duplicateGroups) = 1
  /\ Len(response.body.duplicateGroups[1].files) = 2
  /\ response.body.duplicateGroups[1].files[1].name # response.body.duplicateGroups[1].files[2].name

(***************************************************************************)
(* C6: failures of single entries do not fail the scan: a scan of a        *)
(* readable directory succeeds; a subdirectory that cannot be read and a   *)
(* file whose stat or read fails are left out; every other listed file,    *)
(* in sibling directories and in later entries, is returned.               *)
(***************************************************************************)
\* the scan request the log shows was for a directory that can be read
WalkedReadableDir ==
  /\ Len(logs) >= 1
  /\ logs[1].text = "Starting scan of directory"
  /\ IsDirPath(logs[1].arg)
  /\ disk.dirOk[DirOf(logs[1].arg)]

C6_CollectAndContinue ==
  WalkedReadableDir =>
    /\ ScanSucceeded
    /\ LET root == DirOf(logs[1].arg)
           got  == { f.path : f \in CategorizedRecords(response.body.categorizedFiles) }
       IN \A s \in Slots :
            /\ (Under(s, root) /\ (~Reachable(disk, s, root) \/ ~disk.slot[s].statOk \/ ~disk.slot[s].readOk))
                 => SlotPath(disk, s) \notin got
            /\ (Reachable(disk, s, root) /\ Healthy(disk, s) /\ HasListedExtension(disk.slot[s].name))
                 => SlotPath(disk, s) \in got

\* the whole tree was scanned, directory d could not be read and held a
\* file, and the file in the sibling subtree, met later, was returned
C6_Witness ==
  /\ ScanSucceeded
  /\ ScannedPath = DirPath("r")
  /\ ~disk.dirOk["d"]
  /\ disk.slot[2].kind = "file"
  /\ ~disk.slot[1].statOk /\ disk.slot[1].kind = "file"
  /\ response.body.totalFiles = 1
  /\ SlotPath(disk, 3) \in { f.path : f \in CategorizedRecords(response.body.categorizedFiles) }

(***************************************************************************)
(* C7: every record a scan returns has a listed extension once its name is *)
(* lower-cased, and every readable regular file under the root, at any     *)
(* depth, whose extension is listed in any letter case, is returned.       *)
(***************************************************************************)
C7_AllowList ==
  ScanSucceeded =>
    LET root == DirOf(ScannedPath)
        got  == CategorizedRecords(response.body.categorizedFiles)
    IN /\ \A f \in got : HasListedExtension(f.name)
       /\ \A s \in Slots :
            (Reachable(disk, s, root) /\ Healthy(disk, s) /\ HasListedExtension(disk.slot[s].name))
              => RecordOf(disk, s) \in got

\* a file with an upper-case extension three directories deep was returned
\* and a file with an unlisted extension was not
C7_Witness ==
  /\ ScanSucceeded
  /\ ScannedPath = DirPath("r")
  /\ disk.slot[3].name = <<"b",".","E","X","E">>
  /\ RecordOf(disk, 3) \in CategorizedRecords(response.body.categorizedFiles)
  /\ disk.slot[1].name = <<"n",".","t","x","t">> /\ disk.slot[1].kind = "file"
  /\ response.body.totalFiles = 1

(***************************************************************************)
(* C3: categorizeFiles gives every file the category of the first rule in  *)
(* list order that is enabled and matches it (a keyword is a substring of  *)
(* the file name or a path pattern is a substring of the path, case        *)
(* ignored); a disabled rule gives no category; a file no enabled rule     *)
(* matches gets "Uncategorized".                                           *)
(***************************************************************************)
\* a keyword occurs in the name or a pattern in the path, case ignored
Matches(rule, file) ==
  \/ \E k \in Range(rule.keywords) : includes(toLowerCase(file.name), toLowerCase(k))
  \/ \E p \in Range(rule.pathPatterns) : includes(toLowerCase(file.path), toLowerCase(p))

\* the category the claim gives the file
ClaimedCategory(file, rules) ==
  LET hits == { i \in 1..Len(rules) : rules[i].enabled /\ Matches(rules[i], file) }
  IN IF hits = {} THEN Uncategorized
     ELSE rules[CHOOSE i \in hits : \A j \in hits : i <= j].category

\* the categories under which the result lists the file
CategoriesOf(categorized, file) ==
  { categorized[k].category : k \in { n \in 1..Len(categorized) :
        \E i \in 1..Len(categorized[n].files) : Uncat(categorized[n].files[i]) = file } }

C3_FirstEnabledMatchWins ==
  (catIn.called /\ catIn.done) =>
    \A f \in Range(catIn.files) :
      CategoriesOf(catOut, f) = { ClaimedCategory(f, catIn.rules) }

(***************************************************************************)
(* C4: a disabled rule counts as a deleted one: the categories of all      *)
(* files are those categorizeFiles gives with the rule taken out of the    *)
(* list and the other rules left in their order.                           *)
(***************************************************************************)
RemoveAt(seq, r) == [i \in 1..(Len(seq) - 1) |-> IF i < r THEN seq[i] ELSE seq[i + 1]]

\* the pairs <<file, category>> of a result
Assignment(categorized) ==
  UNION { { <<Uncat(categorized[k].files[i]), categorized[k].category>> : i \in 1..Len(categorized[k].files) }
          : k \in 1..Len(categorized) }

C4_DisabledIsDeleted ==
  (catIn.called /\ catIn.done) =>
    \A r \in 1..Len(catIn.rules) :
      ~catIn.rules[r].enabled =>
        Assignment(catOut) = Assignment(categorizeFiles(catIn.files, RemoveAt(catIn.rules, r)))

\* a disabled rule that matches a file stands before an enabled rule of
\* another category that matches the same file
C4_Witness ==
  /\ catIn.called /\ catIn.done
  /\ Len(catIn.rules) = 2
  /\ ~catIn.rules[1].enabled /\ catIn.rules[2].enabled
  /\ catIn.rules[1].category # catIn.rules[2].category
  /\ \E f \in Range(catIn.files) :
       /\ Matches(catIn.rules[1], f) /\ Matches(catIn.rules[2], f)
       /\ <<f, catIn.rules[2].category>> \in Assignment(catOut)

(***************************************************************************)
(* C9: the similarity score is symmetric; identical strings, two empty     *)
(* strings included, score exactly 1; an empty and a non-empty string      *)
(* score 0; every score lies between 0 and 1.                              *)
(***************************************************************************)
C9_ScoreSymmetric ==
  (simIn.called /\ simIn.done) =>
    /\ ScoreEq(simOut, calculateSimilarity(simIn.str2, simIn.str1))
    /\ simIn.str1 = simIn.str2 => (simOut.num = simOut.den)
    /\ ((Len(simIn.str1) = 0) # (Len(simIn.str2) = 0)) => simOut.num = 0
    /\ simOut.den > 0 /\ 0 <= simOut.num /\ simOut.num <= simOut.den

\* two different strings of different lengths that share a part
C9_Witness ==
  /\ simIn.called /\ simIn.done
  /\ Len(simIn.str1) > Len(simIn.str2) /\ Len(simIn.str2) > 0
  /\ 0 < simOut.num /\ simOut.num < simOut.den

(***************************************************************************)
(* Steps of the system, told from the log.                                 *)
(***************************************************************************)
Last(seq) == seq[Len(seq)]

\* this step handled a scan request that got as far as the walk
ScanStep ==
  /\ Len(logs') > Len(logs)
  /\ logs'[Len(logs) + 1].text = "Starting scan of directory"

\* the directory that request named
StepPath == logs'[Len(logs) + 1].arg

\* this step handled a similarity analysis
SimilarStep ==
  /\ Len(logs') > Len(logs)
  /\ logs'[Len(logs) + 1].text = "Starting similar files analysis for"

(***************************************************************************)
(* C5: a scan whose root does not exist or is not a directory commits      *)
(* nothing: the stored snapshot and the scan counter stay as they were     *)
(* and the caller gets an error.                                           *)
(***************************************************************************)
C5_InvalidRootCommitsNothing ==
  [][ (ScanStep /\ ~IsDirPath(StepPath)) =>
        /\ lastScan' = lastScan
        /\ statsFile' = statsFile
        /\ response'.op = "scan" /\ response'.status = 400 /\ response'.error # "none"
        /\ Last(logs').level = "ERROR" ]_vars

\* a scan of a path that is no directory failed after an earlier scan had
\* stored a snapshot with files in it
C5_Witness ==
  /\ lastScan.present /\ lastScan.totalFiles > 0
  /\ statsFile.totalScans = 1
  /\ response.op = "scan" /\ response.status = 400
  /\ Len(logs) = 7 /\ logs[7].text = "Scan failed" /\ ~IsDirPath(logs[7].arg)

(***************************************************************************)
(* C8: a successful scan replaces the stored snapshot: what is stored is   *)
(* the result of this scan, all its records and group members are files    *)
(* this scan found, and its count is the count of this scan.               *)
(***************************************************************************)
C8_SnapshotReplaced ==
  [][ (ScanStep /\ response'.status = 200) =>
        LET found == Range(Expected(disk', DirOf(StepPath)))
        IN /\ lastScan' = response'.body
           /\ lastScan'.present
           /\ lastScan'.totalFiles = Cardinality(found)
           /\ CategorizedRecords(lastScan'.categorizedFiles) \subseteq found
           /\ GroupedRecords(lastScan'.duplicateGroups) \subseteq found ]_vars

\* a second scan succeeded and found fewer files than the first, and the
\* stored snapshot has the count of the second
C8_Witness ==
  /\ statsFile.totalScans = 2
  /\ ScanSucceeded
  /\ Len(logs) = 10
  /\ logs[2].arg = <<"3">>
  /\ logs[7].arg = <<"1">>
  /\ lastScan.totalFiles = 1
  /\ Cardinality(CategorizedRecords(lastScan.categorizedFiles)) = 1

(***************************************************************************)
(* C10: a similarity analysis reports exactly the pairs of different files *)
(* of the stored snapshot whose digests differ and whose score is at least *)
(* 0.85, each pair once, sorted by score, highest first.                   *)
(***************************************************************************)
\* the score of two files of the snapshot as the disk stands
PairScore(dk, f, g) ==
  calculateSimilarity(extractTextContent(dk, f.path), extractTextContent(dk, g.path))

AtLeast85(score) == 100 * score.num >= 85 * score.den

\* the pairs of the snapshot that are to be reported, as sets of two paths
OwedPairs(dk, scan) ==
  LET files == IF scan.present THEN CategorizedRecords(scan.categorizedFiles) ELSE {}
  IN { {f.path, g.path} : <<f, g>> \in { p \in files \X files :
          /\ p[1].path # p[2].path
          /\ p[1].hash # p[2].hash
          /\ AtLeast85(PairScore(dk, p[1], p[2])) } }

C10_SimilarPairsExact ==
  [][ (SimilarStep /\ response'.status = 200) =>
        LET pairs == response'.body
            owed == OwedPairs(disk', lastScan')
        IN /\ { {pairs[k].file1.path, pairs[k].file2.path} : k \in 1..Len(pairs) } = owed
           /\ Len(pairs) = Cardinality(owed)
           /\ \A k \in 1..Len(pairs) :
                ScoreEq(pairs[k].similarity, PairScore(disk', pairs[k].file1, pairs[k].file2))
           /\ \A k \in 1..(Len(pairs) - 1) : ScoreGeq(pairs[k].similarity, pairs[k + 1].similarity) ]_vars

\* an analysis of a snapshot of three files left out the pair of files with
\* the same digest and reported the two other pairs, which the loop met in
\* the order of rising score
C10_Witness ==
  /\ response.op = "similar" /\ response.status = 200
  /\ lastScan.totalFiles = 3
  /\ Len(lastScan.duplicateGroups) = 1
  /\ Len(response.body) = 2
  /\ ~ScoreEq(response.body[1].similarity, response.body[2].similarity)
  /\ response.body[1].file1.path = join(DirPath("r"), <<"a","p","p","1",".","e","x","e">>)

(***************************************************************************)
(* Suggestions, told from the snapshot.                                    *)
(***************************************************************************)
Count(seq, x) == Cardinality({ k \in 1..Len(seq) : seq[k] = x })

\* what the three detectors produce for the stored snapshot
Produced ==
  IF lastScan.present THEN generatedSuggestions(allFilesOf(lastScan.categorizedFiles, 1)) ELSE <<>>

(***************************************************************************)
(* C11: the list Suggest returns is non-increasing in priority, has at     *)
(* most 20 entries, and holds the 20 highest-priority suggestions of the   *)
(* three detectors: no suggestion is left out while one of lower priority  *)
(* is returned.                                                            *)
(***************************************************************************)
C11_TopTwentyByPriority ==
  response.op = "suggest" =>
    LET out == response.body.suggestions
        produced == Produced
    IN /\ Len(out) <= 20
       /\ Len(out) = Min(20, Len(produced))
       /\ \A k \in 1..(Len(out) - 1) : out[k].priority >= out[k + 1].priority
       /\ \A s \in Range(out) : Count(out, s) <= Count(produced, s)
       /\ \A s \in Range(produced) :
            Count(out, s) < Count(produced, s) => \A k \in 1..Len(out) : out[k].priority >= s.priority

\* more than 20 suggestions of several priorities were produced, the last
\* detector's among the highest, and one of lower priority than all that
\* were returned was left out
C11_Witness ==
  /\ response.op = "suggest"
  /\ Len(Produced) > 20
  /\ Len(response.body.suggestions) = 20
  /\ response.body.suggestions[1].type = "duplicate_removal"
  /\ response.body.suggestions[1].priority > response.body.suggestions[20].priority
  /\ \E s \in Range(Produced) :
       /\ s.priority < response.body.suggestions[20].priority
       /\ Count(response.body.suggestions, s) = 0

\* a step that answers GET /api/smart-suggestions
SuggestStep == response'.op = "suggest" /\ response' # response

\* a step that answers POST /api/smart-suggestions
SuggestionActionStep ==
  /\ response'.op = "suggestion-action"
  /\ (response' # response \/ logs' # logs)

(***************************************************************************)
(* C12: generating suggestions changes neither the snapshot, the rules,    *)
(* the statistics, the log nor any file; applying or dismissing one       *)
(* appends one INFO entry to the log and changes no file and nothing of    *)
(* the snapshot, the rules or the statistics.                              *)
(***************************************************************************)
C12_SuggestReadOnly ==
  [][ /\ SuggestStep => UNCHANGED <<disk, lastScan, rulesFile, statsFile, logs>>
      /\ SuggestionActionStep =>
           /\ UNCHANGED <<disk, lastScan, rulesFile, statsFile>>
           /\ response'.status = 200 =>
                /\ Len(logs') = Len(logs) + 1
                /\ SubSeq(logs', 1, Len(logs)) = logs
                /\ Last(logs').level = "INFO"
           /\ response'.status # 200 => logs' = logs ]_vars

\* suggestions were generated for a snapshot of several files after one of
\* them had been acted on, with the files still on disk
C12_Witness ==
  /\ response.op = "suggest"
  /\ Len(response.body.suggestions) > 0
  /\ lastScan.present /\ lastScan.totalFiles = 3
  /\ statsFile.totalScans = 1
  /\ \A s \in Slots : disk.slot[s].kind = "file"
  /\ Len(logs) = 6
  /\ logs[6].level = "INFO" /\ logs[6].text = "Smart suggestion"

(***************************************************************************)
(* Deletion, told from the disk before the request.                        *)
(***************************************************************************)
\* the slots a request can remove: a requested path names the slot's entry,
\* the entry can be examined and its directory can be written to
Removable(dk, paths, locked) ==
  { s \in Slots : /\ dk.slot[s].kind # "none"
                  /\ dk.slot[s].statOk
                  /\ s \notin locked
                  /\ \E i \in 1..Len(paths) : paths[i] = SlotPath(dk, s) }

\* the slots a step emptied
Removed == { s \in Slots : disk.slot[s].kind # "none" /\ disk'.slot[s].kind = "none" }

\* the positions of a request that fail: the path names nothing that can be
\* removed, or an earlier position has removed it
Failing(dk, paths, locked) ==
  { i \in 1..Len(paths) :
      \/ \A s \in Removable(dk, paths, locked) : paths[i] # SlotPath(dk, s)
      \/ \E j \in 1..(i - 1) : paths[j] = paths[i] }

(***************************************************************************)
(* C13: a delete request treats every path on its own: a path whose stat   *)
(* or unlink fails adds one entry to the error list and is not counted,    *)
(* every other path is still attempted, deletedCount plus the number of    *)
(* errors is the number of requested paths, and exactly the counted paths  *)
(* are gone from the disk.                                                 *)
(***************************************************************************)
C13_DeleteEachPathAlone ==
  [][ \A files \in DeleteFields(disk), locked \in LockedSets :
        (files.kind = "array" /\ DeletePOST(files, locked)) =>
          LET paths == files.paths
              body == response'.body
              failing == Failing(disk, paths, locked)
          IN /\ response'.status = 200
             /\ body.deletedCount + Len(body.errors) = Len(paths)
             /\ Removed = Removable(disk, paths, locked)
             /\ body.deletedCount = Cardinality(Removed)
             /\ \A s \in Slots \ Removed : disk'.slot[s] = disk.slot[s]
             /\ Len(body.errors) = Cardinality(failing)
             /\ \A i \in failing : Count(body.errors, paths[i]) = Cardinality({ j \in failing : paths[j] = paths[i] }) ]_vars

\* a request of three paths whose first path failed removed the two others
C13_Witness ==
  /\ response.op = "delete" /\ response.status = 200
  /\ response.body.deletedCount = 2
  /\ response.body.errors = << DirPath("d") >>
  /\ disk.slot[1].kind = "none" /\ disk.slot[2].kind = "none" /\ disk.slot[3].kind = "file"
  /\ Last(logs).text = "Deletion completed"
  /\ logs[Len(logs) - 3].level = "ERROR"

\* a step that starts POST /api/organize
OrganizeStep ==
  /\ Len(logs') > Len(logs)
  /\ logs'[Len(logs) + 1].text = "Starting file organization"

(***************************************************************************)
(* C14: the organizer copies and never moves: every file the snapshot      *)
(* lists that was on disk before the request is at its path afterwards     *)
(* with the bytes it had, also when a listed file lies in the output tree  *)
(* and another listed file has the same base name.                         *)
(***************************************************************************)
C14_OrganizeKeepsSources ==
  [][ OrganizeStep =>
        \A f \in CategorizedRecords(lastScan.categorizedFiles) :
          \A s \in slotsAt(disk, f.path) :
            /\ disk'.slot[s].kind = disk.slot[s].kind
            /\ disk'.slot[s].name = disk.slot[s].name
            /\ disk'.slot[s].bytes = disk.slot[s].bytes ]_vars


\* the entries a scan that succeeds appends
ScanTexts ==
  << "Starting scan of directory", "Found application files", "Detected duplicate groups",
     "Categorized files into categories", "Scan completed" >>

\* the most entries one operation appends: a timer callback around a scan
MaxStepEntries == Len(ScanTexts) + 2

\* this step appended between lo and hi entries to the log and dropped
\* nothing but its oldest entries: what is left of the old log is its newest
\* part, in its old order, at the front of the new log
Window(lo, hi) ==
  \E k \in lo..hi :
    LET n == Len(logs)
        m == Len(logs')
        kept == m - k
    IN /\ m = Min(LOG_LIMIT, n + k)
       /\ kept >= 0
       /\ \A i \in 1..kept : logs'[i] = logs[n - kept + i]

\* a step that wrote to the log: a request answered with 200 (or a timer
\* callback after it, which leaves the response alone); an auto-scan request
\* writes when it sets a timer or stops one
AppendingStep ==
  /\ response'.status = 200
  /\ response'.op # "clear-logs"
  /\ response'.op = "auto-scan" => scanInterval.active \/ scanInterval'.active

\* C15: the persisted log never holds more than 1000 entries; an operation
\* that appends to a log drops its oldest entries only and leaves the newest
\* 1000 in the order they were appended; clearing leaves the one entry that
\* records it.
C15_LogKeepsNewestThousand ==
  [][ /\ Len(logs') <= LOG_LIMIT
      /\ response'.op # "clear-logs" => Window(0, MaxStepEntries)
      /\ response'.op = "clear-logs" =>
           \/ logs' = << LogEntry("INFO", "Logs cleared by user", <<>>) >>
           \/ Window(1, MaxStepEntries)
      /\ AppendingStep => Window(1, MaxStepEntries)
      /\ response'.op = "scan" /\ response'.status = 200 /\ response' # response =>
           \A i \in 1..5 : logs'[Len(logs') - 5 + i].text = ScanTexts[i] ]_vars

\* a full log that has lost its oldest entries to a scan the timer started
C15_Witness ==
  /\ Len(logs) = LOG_LIMIT
  /\ logs[1].text = "Earlier entry"
  /\ logs[1].arg = numberToString(6)
  /\ logs[LOG_LIMIT - 7].text = "Auto-scan scheduled"
  /\ logs[LOG_LIMIT].text = "Auto-scan completed"


(***************************************************************************)
(* C16: every failure leaves a WARN or ERROR entry in the persisted log.   *)
(* For a scan: a root that is no readable directory, a subdirectory met on *)
(* the walk that cannot be read, an application file met on the walk whose *)
(* stat or read fails.                                                     *)
(***************************************************************************)
\* the walk from root came to directory d, which lies below root
MetDirectory(dk, d, root) ==
  /\ d # root
  /\ root \in Ancestors(d)
  /\ \A x \in Ancestors(d) \ {d} : root \in Ancestors(x) => dk.dirOk[x]

\* the walk from root left out a subdirectory or an application file
ScanSkipped(dk, root) ==
  \/ \E d \in Dirs : MetDirectory(dk, d, root) /\ ~dk.dirOk[d]
  \/ \E s \in Slots :
       /\ Reachable(dk, s, root)
       /\ dk.slot[s].kind = "file"
       /\ HasListedExtension(dk.slot[s].name)
       /\ ~(dk.slot[s].statOk /\ dk.slot[s].readOk)

FailureLogged == \E i \in 1..Len(logs) : logs[i].level \in {"WARN", "ERROR"}

C16_FailuresReachTheLog ==
  /\ (response.op = "scan" /\ response.status = 400 /\ Len(logs) > 0) => FailureLogged
  /\ (ScanSucceeded /\ ScanSkipped(disk, DirOf(ScannedPath))) => FailureLogged


\* a step that handled a delete request with a files array
DeleteStep ==
  /\ Len(logs') > Len(logs)
  /\ logs'[Len(logs) + 1].text = "Starting deletion of files"

RECURSIVE sizesOf(_, _)
sizesOf(dk, slots) ==
  IF slots = {} THEN 0
  ELSE LET s == CHOOSE x \in slots : TRUE
       IN SizeOf(dk.slot[s]) + sizesOf(dk, slots \ {s})

\* what a step's delete request freed: the sizes the files it removed had
Freed == IF DeleteStep THEN sizesOf(disk, Removed) ELSE 0

(***************************************************************************)
(* C17: storageSaved is a running total: every step adds to it the sizes   *)
(* of the files a delete request removed in that step, so it never         *)
(* decreases, and a scan leaves it as it was.                              *)
(***************************************************************************)
C17_StorageSavedRunningTotal ==
  [][ /\ statsFile'.storageSaved = statsFile.storageSaved + Freed
      /\ statsFile'.storageSaved >= statsFile.storageSaved
      /\ ScanStep => statsFile'.storageSaved = statsFile.storageSaved ]_vars

\* two delete requests have removed one file each and the total holds both
C17_Witness ==
  /\ Len(SelectSeq(logs, LAMBDA e : e.text = "Deleted file")) = 2
  /\ Len(SelectSeq(logs, LAMBDA e : e.text = "Deletion completed")) = 2
  /\ statsFile.storageSaved = 2 * Len(Bytes1)


(***************************************************************************)
(* C18: rules are read when a scan runs: a save of rule list R that        *)
(* succeeds leaves exactly R, in its order, as the persisted list; a scan  *)
(* categorizes the files it finds with the list persisted at that moment,  *)
(* whatever earlier scans used, and leaves the persisted rules as they     *)
(* are.                                                                    *)
(***************************************************************************)
C18_RulesReadAtScanTime ==
  [][ /\ \A rules \in RulePayloads :
           (RulesPOST(rules) /\ response'.op = "rules" /\ response'.status = 200) =>
             /\ rulesFile'.present /\ rulesFile'.hasRules
             /\ rulesFile'.rules = rules.rules
      /\ ScanStep => rulesFile' = rulesFile
      /\ (ScanStep /\ IsDirPath(StepPath) /\ rulesFile.present /\ rulesFile.hasRules) =>
           /\ response'.status = 200
           /\ response'.body.categorizedFiles =
                categorizeFiles(Expected(disk, DirOf(StepPath)), rulesFile.rules) ]_vars

\* a scan under the rules saved earlier, then a save of two rules that both
\* match app1.exe, then a scan that put app1.exe under the first of them and
\* app2.exe, which only the second matches, under the second
C18_Witness ==
  /\ ScansLogged = 2
  /\ SavesLogged = 1
  /\ logs[5].text = "Scan completed"
  /\ logs[6].text = "Updated categorization rules"
  /\ ScanSucceeded
  /\ rulesFile.rules = <<AppsRule, ToolsRule>>
  /\ Len(response.body.categorizedFiles) = 2
  /\ response.body.categorizedFiles[1].category = ToolsRule.category
  /\ Len(response.body.categorizedFiles[1].files) = 1
  /\ response.body.categorizedFiles[2].category = AppsRule.category
  /\ Len(response.body.categorizedFiles[2].files) = 2


(***************************************************************************)
(* C19: a rules save whose body has no rules array is answered with an     *)
(* error and leaves the persisted rules as they are; a delete request      *)
(* whose body has no files array is answered with an error and removes     *)
(* nothing.                                                                *)
(***************************************************************************)
C19_MalformedInputRejected ==
  [][ /\ \A rules \in RulePayloads :
           (rules.kind # "array" /\ RulesPOST(rules)) =>
             /\ response'.op = "rules" /\ response'.status = 400 /\ response'.error # "none"
             /\ rulesFile' = rulesFile
             /\ logs' = logs
      /\ \A files \in DeleteFields(disk), locked \in LockedSets :
           (files.kind # "array" /\ DeletePOST(files, locked)) =>
             /\ response'.op = "delete" /\ response'.status = 400 /\ response'.error # "none"
             /\ disk' = disk
             /\ statsFile' = statsFile ]_vars

\* a save without a rules array was turned down after a delete request had
\* removed a file: the rules saved earlier are still there
C19_Witness ==
  /\ response.op = "rules" /\ response.status = 400
  /\ rulesFile = SavedRules
  /\ Len(SelectSeq(logs, LAMBDA e : e.text = "Deleted file")) = 1
  /\ SavesLogged = 0


(***************************************************************************)
(* C20: a file that starts with the MZ magic and whose PE header cannot be *)
(* read is reported as 'PE (corrupted)': a file shorter than 64 bytes, a   *)
(* PE offset at byte 60 that is length - 4 or more, no 'PE\0\0' where the  *)
(* offset points, a machine field that ends past the end of the file.      *)
(***************************************************************************)
StartsWithMZ(buffer) == Len(buffer) >= 2 /\ buffer[1] = 77 /\ buffer[2] = 90

TooShort(buffer) == Len(buffer) < 64

\* the four bytes at byte 60 are a number of length - 4 or more
OffsetOutOfRange(buffer) ==
  /\ ~TooShort(buffer)
  /\ \/ buffer[64] # 0
     \/ buffer[61] + 256 * buffer[62] + 65536 * buffer[63] >= Len(buffer) - 4

OffsetOf(buffer) == buffer[61] + 256 * buffer[62] + 65536 * buffer[63]

SignatureMissing(buffer) ==
  /\ ~TooShort(buffer) /\ ~OffsetOutOfRange(buffer)
  /\ SubSeq(buffer, OffsetOf(buffer) + 1, OffsetOf(buffer) + 4) # <<80, 69, 0, 0>>

MachinePastEnd(buffer) ==
  /\ ~TooShort(buffer) /\ ~OffsetOutOfRange(buffer) /\ ~SignatureMissing(buffer)
  /\ OffsetOf(buffer) + 6 > Len(buffer)

Analyzed == dnaIn.called /\ dnaIn.done /\ StartsWithMZ(dnaIn.buffer)

C20_CorruptedPEReported ==
  (/\ Analyzed
   /\ \/ TooShort(dnaIn.buffer)
      \/ OffsetOutOfRange(dnaIn.buffer)
      \/ SignatureMissing(dnaIn.buffer)
      \/ MachinePastEnd(dnaIn.buffer))
    => dnaOut = "PE (corrupted)"


\* the files of the stored snapshot, as Suggest reads them
SnapshotFiles == IF lastScan.present THEN allFilesOf(lastScan.categorizedFiles, 1) ELSE <<>>

\* the files of a list that share a normalized base name, in list order
Versions(files, key) == SelectSeq(files, LAMBDA f : baseName(f) = key)

\* a suggestion file without its action
Plain(f) == [path |-> f.path, name |-> f.name, size |-> f.size]

(***************************************************************************)
(* C21: version consolidation groups the files by normalized base name;    *)
(* a group of more than one file yields one suggestion that lists every    *)
(* member once, marks one member of the largest size 'keep' and all others *)
(* 'remove', saves the sizes of the removed members, has confidence medium *)
(* and priority 10 x (members - 1); a group of one yields nothing.         *)
(***************************************************************************)
C21_VersionConsolidation ==
  response.op = "suggest" =>
    \A files \in {SnapshotFiles} : \A out \in {detectSimilarApps(files)} :
      LET keys == { baseName(files[i]) : i \in 1..Len(files) }
      IN /\ \A k \in 1..Len(out) : out[k].title \in keys /\ out[k].type = "version_consolidation"
         /\ \A key \in keys : \A members \in {Versions(files, key)} :
              LET at == { k \in 1..Len(out) : out[k].title = key }
              IN IF Len(members) > 1
                 THEN /\ Cardinality(at) = 1
                      /\ \A k \in at : \A listed \in {out[k].files} :
                           LET kept == SelectSeq(listed, LAMBDA f : f.action = "keep")
                               removed == SelectSeq(listed, LAMBDA f : f.action = "remove")
                           IN /\ Len(listed) = Len(members)
                              /\ \A i \in 1..Len(members) :
                                   Cardinality({ j \in 1..Len(listed) : Plain(listed[j]) = Plain(members[i]) })
                                     = Cardinality({ j \in 1..Len(members) : Plain(members[j]) = Plain(members[i]) })
                              /\ Len(kept) = 1
                              /\ Len(removed) = Len(members) - 1
                              /\ \A i \in 1..Len(members) : kept[1].size >= members[i].size
                              /\ out[k].potentialSavings = sumSizes(removed)
                              /\ out[k].potentialSavings = sumSizes(members) - kept[1].size
                              /\ out[k].confidence = "medium"
                              /\ out[k].priority = 10 * (Len(members) - 1)
                              /\ Len(response.body.suggestions) < SUGGESTION_LIMIT =>
                                   Count(response.body.suggestions, out[k]) = 1
                 ELSE at = {}

\* three differently written names of one application and a fourth that is
\* another: the group of three keeps its second file, one of the largest
C21_Witness ==
  /\ response.op = "suggest"
  /\ Len(SnapshotFiles) >= 4
  /\ baseName(SnapshotFiles[1]) = baseName(SnapshotFiles[2])
  /\ baseName(SnapshotFiles[1]) = baseName(SnapshotFiles[3])
  /\ SnapshotFiles[1].name # SnapshotFiles[3].name
  /\ Len(Versions(SnapshotFiles, baseName(SnapshotFiles[4]))) = 1
  /\ \E s \in Range(response.body.suggestions) :
       /\ s.type = "version_consolidation"
       /\ s.title = baseName(SnapshotFiles[1])
       /\ s.files[1].path = SnapshotFiles[2].path
       /\ s.files[1].size = s.files[2].size
       /\ s.potentialSavings = 4
       /\ s.priority = 20


\* the file's lower-cased name holds one of the group's application names
MatchesGroup(f, group) ==
  \E a \in 1..Len(group.apps) : includes(toLowerCase(f.name), group.apps[a])

MatchesRecommended(f, group) == includes(toLowerCase(f.name), group.recommend)

(***************************************************************************)
(* C22: redundant applications: a catalog category with two or more       *)
(* matching files yields one suggestion; its one 'keep' file is the first  *)
(* matching file that holds the recommended name, or the first matching    *)
(* file when none does; every other matching file is listed once as        *)
(* 'remove'; confidence is high and priority 15 x (removed files).  A      *)
(* category with fewer than two matching files yields nothing.             *)
(***************************************************************************)
C22_RedundantApplications ==
  response.op = "suggest" =>
    \A files \in {SnapshotFiles} : \A out \in {detectRedundantApps(files)} :
      /\ \A k \in 1..Len(out) :
           /\ out[k].type = "duplicate_removal"
           /\ \E g \in 1..Len(redundantGroups) : redundantGroups[g].category = out[k].title
      /\ \A g \in 1..Len(redundantGroups) :
           \A matching \in {SelectSeq(files, LAMBDA f : MatchesGroup(f, redundantGroups[g]))} :
             LET group == redundantGroups[g]
                 at == { k \in 1..Len(out) : out[k].title = group.category }
                 preferred == SelectSeq(matching, LAMBDA f : MatchesRecommended(f, group))
             IN IF Len(matching) >= 2
                THEN /\ Cardinality(at) = 1
                     /\ \A k \in at : \A listed \in {out[k].files} :
                          LET kept == SelectSeq(listed, LAMBDA f : f.action = "keep")
                              removed == SelectSeq(listed, LAMBDA f : f.action = "remove")
                          IN /\ Len(kept) = 1
                             /\ Plain(kept[1]) = Plain(IF Len(preferred) > 0 THEN preferred[1] ELSE matching[1])
                             /\ Len(listed) = Len(matching)
                             /\ Len(removed) = Len(matching) - 1
                             /\ \A i \in 1..Len(matching) :
                                  Cardinality({ j \in 1..Len(listed) : Plain(listed[j]) = Plain(matching[i]) }) = 1
                             /\ out[k].confidence = "high"
                             /\ out[k].priority = 15 * Len(removed)
                             /\ out[k].potentialSavings = sumSizes(removed)
                ELSE at = {}

\* two text editors, the recommended one listed second and kept, and two
\* archive tools, neither of them the recommended one, the first kept
C22_Witness ==
  /\ response.op = "suggest"
  /\ \E s, t \in Range(response.body.suggestions) :
       /\ s.type = "duplicate_removal" /\ t.type = "duplicate_removal"
       /\ s.title = redundantGroups[3].category
       /\ MatchesRecommended(s.files[1], redundantGroups[3])
       /\ ~MatchesRecommended(SelectSeq(SnapshotFiles, LAMBDA f : MatchesGroup(f, redundantGroups[3]))[1], redundantGroups[3])
       /\ t.title = redundantGroups[4].category
       /\ ~MatchesRecommended(t.files[1], redundantGroups[4])
       /\ t.priority = 15


\* the number of places of a categorized result that hold the file
Listings(categorized, file) ==
  Cardinality({ <<k, i>> \in (1..Len(categorized)) \X (1..Len(catIn.files)) :
                   i <= Len(categorized[k].files) /\ Uncat(categorized[k].files[i]) = file })

RECURSIVE listSizes(_, _)
listSizes(categorized, k) ==
  IF k > Len(categorized) THEN 0
  ELSE Len(categorized[k].files) + listSizes(categorized, k + 1)

(***************************************************************************)
(* C23: categorization partitions the files: every file of the list is in  *)
(* exactly one category list of the result, once, so the sizes of the      *)
(* category lists sum to the number of files; this for every rule list,    *)
(* one with an enabled rule of category "Uncategorized" included.          *)
(***************************************************************************)
C23_CategorizationPartitions ==
  (catIn.called /\ catIn.done) =>
    /\ \A f \in Range(catIn.files) : Listings(catOut, f) = 1
    /\ listSizes(catOut, 1) = Len(catIn.files)


(***************************************************************************)
(* C24: the rule list a scan categorizes with is the rule list the rules   *)
(* endpoint reports at that moment: a fetch reports the list a scan of     *)
(* that moment would load, and a scan that succeeds categorizes with the   *)
(* list a fetch of that moment would report; also when no rules file       *)
(* exists yet.                                                             *)
(***************************************************************************)
C24_ScanRulesAreReportedRules ==
  [][ /\ RulesGET => response'.body.rules = loadRules(rulesFile)
      /\ (ScanStep /\ IsDirPath(StepPath)) =>
           response'.body.categorizedFiles =
             categorizeFiles(Expected(disk, DirOf(StepPath)), rulesOfGET(rulesFile)) ]_vars


(***************************************************************************)
(* C25: no log entry is lost when requests append to the log together:     *)
(* every entry a request has written is in the persisted log (the log is   *)
(* far below its cap of 1000 entries here, so nothing is evicted).         *)
(***************************************************************************)
C25_NoLogEntryLost ==
  Len(logs) < LOG_LIMIT =>
    \A p \in Requests :
      \A k \in 1..Len(inflight[p].wrote) :
        \E i \in 1..Len(logs) : logs[i] = inflight[p].wrote[k]

\* every request in flight has taken its last step
AllFinished == Requests # {} /\ \A p \in Requests : Finished(p)

ScansCompleted == IF "scan" \in Requests /\ inflight["scan"].status = 200 THEN 1 ELSE 0

BytesFreed == IF "delete" \in Requests THEN inflight["delete"].freed ELSE 0

(***************************************************************************)
(* C26: no stats update is lost when a scan, a delete and an auto-scan     *)
(* configuration run together: once they have finished, totalScans is the  *)
(* number of scans that succeeded and storageSaved is what the deletes     *)
(* freed.                                                                  *)
(***************************************************************************)
C26_NoStatsUpdateLost ==
  AllFinished =>
    /\ statsFile.totalScans = ScansCompleted
    /\ statsFile.storageSaved = BytesFreed


\* the step is the callback of a timer: it opens with this log entry
TickStep ==
  /\ Len(logs') > Len(logs)
  /\ logs'[Len(logs) + 1].text = "Auto-scan started for directory"

\* the configuration requests that took effect, oldest first, as logged
ConfigsDone == SelectSeq(logs, LAMBDA e : e.text \in ConfigTexts)

(***************************************************************************)
(* C27: at most one auto-scan timer exists.  Enabling sets one timer for   *)
(* the directory and the interval of the request, replacing the timer      *)
(* there was; disabling leaves no timer; an enable request without a       *)
(* directory is rejected and leaves timers and statistics as they are; a   *)
(* timer callback scans the directory of the latest configuration, which   *)
(* was an enabling one.                                                    *)
(***************************************************************************)
C27_AtMostOneTimer ==
  [][ /\ Len(timers') <= 1
      /\ \A enabled \in BOOLEAN, interval \in ConfigIntervals, directory \in ConfigDirectories :
           AutoScanPOST(enabled, interval, directory) =>
             IF enabled /\ directory = <<>>
             THEN /\ response'.status = 400
                  /\ UNCHANGED <<timers, scanInterval, statsFile>>
             ELSE IF enabled
             THEN /\ Len(timers') = 1
                  /\ timers'[1].directory = directory
                  /\ interval # 0 => timers'[1].interval = interval
             ELSE timers' = <<>>
      /\ TickStep =>
           /\ Len(ConfigsDone) > 0
           /\ LET latest == ConfigsDone[Len(ConfigsDone)]
                  scanned == logs'[Len(logs) + 1].arg
              IN /\ latest.text = "Auto-scan scheduled"
                 /\ \E n \in {12, 24} : latest.arg = numberToString(n) \o <<" ">> \o scanned ]_vars

\* a timer for /r every 12 hours was replaced by one for /r/output, and the
\* one callback that ran since scanned /r/output
C27_Witness ==
  /\ Len(ConfigsDone) = 2
  /\ ConfigsDone[1].arg = <<"1","2"," ","/","r">>
  /\ ConfigsDone[2].text = "Auto-scan scheduled"
  /\ timers = << Timer(<<"/","r","/","o","u","t","p","u","t">>, 24) >>
  /\ TicksLogged = 1
  /\ \E i \in 1..Len(logs) :
       /\ logs[i].text = "Auto-scan started for directory"
       /\ logs[i].arg = <<"/","r","/","o","u","t","p","u","t">>


(***************************************************************************)
(* C28: the persisted auto-scan settings agree with the running timer:     *)
(* after a configuration request that was accepted, autoScanEnabled is     *)
(* true exactly when a timer is set, and autoScanInterval is the interval  *)
(* of that timer, also when the request gives no interval.                 *)
(***************************************************************************)
C28_SettingsAgreeWithTimer ==
  [][ \A enabled \in BOOLEAN, interval \in ConfigIntervals, directory \in ConfigDirectories :
        (AutoScanPOST(enabled, interval, directory) /\ response'.status = 200) =>
          /\ statsFile'.autoScanEnabled <=> Len(timers') > 0
          /\ \A i \in 1..Len(timers') : statsFile'.autoScanInterval = timers'[i].interval ]_vars


\* the path lies below the directory
Below(filePath, dir) == Len(filePath) > Len(dir) /\ SubSeq(filePath, 1, Len(dir)) = dir

\* the files in the tree below a directory: entries of the slots and copies
\* the organizer made
FilesBelow(dk, dir) ==
  { SlotPath(dk, s) : s \in { x \in Slots : dk.slot[x].kind = "file" /\ Below(SlotPath(dk, x), dir) } }
  \cup { c.path : c \in { x \in dk.copies : Below(x.path, dir) } }

(***************************************************************************)
(* C29: the organizer gives every file it organized a copy of its own: an  *)
(* organize request that finds the output tree empty leaves as many files  *)
(* in it as it reports organized, and the files it organized and the       *)
(* errors it reports add up to the files of the snapshot.                  *)
(***************************************************************************)
C29_OneCopyPerOrganizedFile ==
  [][ \A directory \in OrganizeRequests, cwd \in WorkingDirectories :
        \A outputDir \in {join(cwd, <<"o","u","t","p","u","t">>)} :
          (OrganizePOST(directory, cwd) /\ response'.status = 200 /\ FilesBelow(disk, outputDir) = {}) =>
            /\ response'.body.organizedCount = Cardinality(FilesBelow(disk', outputDir))
            /\ response'.body.organizedCount + Len(response'.body.errors)
                 = Len(allFilesOf(lastScan.categorizedFiles, 1)) ]_vars


\* the place in the log of the last scan that succeeded, 0 when there is none
LastScanAt ==
  LET at == { i \in 1..Len(logs) : logs[i].text = "Scan completed" }
  IN IF at = {} THEN 0 ELSE CHOOSE i \in at : \A j \in at : j <= i

\* the paths delete requests have removed since that scan
DeletedSinceScan ==
  { logs[i].arg : i \in { j \in 1..Len(logs) : j > LastScanAt /\ logs[j].text = "Deleted file" } }

\* the paths of the files the suggestions of the last response name
SuggestedPaths ==
  UNION { { response.body.suggestions[k].files[i].path : i \in 1..Len(response.body.suggestions[k].files) }
          : k \in 1..Len(response.body.suggestions) }

(***************************************************************************)
(* C30: derived results never name a deleted file: no suggestion returned  *)
(* before the next scan lists a path a delete request has removed since    *)
(* the last scan.                                                          *)
(***************************************************************************)
C30_NoDeletedFileInResults ==
  response.op = "suggest" => SuggestedPaths \cap DeletedSinceScan = {}

====
